---- MODULE Spec2Model ----
(***************************************************************************)
(* fillmem: the raw-mode terminal line editor (src/src/term.rs) and the    *)
(* editor / dispatcher threads that drive it (src/src/main.rs).            *)
(*                                                                         *)
(* Threads: "stdin" (the reader), "editor" (calls line()), "main" (the     *)
(* command dispatcher), "timer" (periodic log()), and, in SpecApi only, a  *)
(* second caller of Term::line ("client"), in SpecLog only, one more       *)
(* thread calling Term::log ("logger").                                    *)
(*                                                                         *)
(* Writes to the terminal are taken to succeed (emit() returns Ok).        *)
(***************************************************************************)
EXTENDS Integers, Sequences, FiniteSets, TLC

\* ------------------------------------------------------------------ bounds
\* external events in one run: chunks typed, SIGTERM, outcomes of read()
\* other than a byte, wake-ups of the timer thread and (SpecApi) line()
\* calls of the second caller
MaxEvents == 2

\* ------------------------------------------------------- program constants
CtrlC == 3
CtrlD == 4
CR == 13
CtrlU == 21
DEL == 127
SP == 32
BufCap == 60
CheckEvery == 10000
Kilo == 1024

prompt == "fillmem> "

\* "touch" and "grow" as the bytes the user types
touch == <<116, 111, 117, 99, 104>>
grow == <<103, 114, 111, 119>>

\* u8::is_ascii_graphic
IsAsciiGraphic(b) == b \in 33..126

Digits == 48..57

\* ------------------------------------------------- the user at the keyboard
\* What the user may type next: a whole line with its CR ("touch",
\* "grow 1", "grow", "grow x", "x"), the text "x" alone, or one of the keys
\* CR, ^C, ^D, DEL, ^U and BEL (a control byte line() has no mapping for).
Chunks ==
    { touch \o <<CR>>, grow \o <<SP, 49, CR>>, grow \o <<CR>>,
      grow \o <<SP, 120, CR>>, <<120, CR>>, <<120>>,
      <<CR>>, <<CtrlC>>, <<CtrlD>>, <<DEL>>, <<CtrlU>>, <<7>> }

\* A line longer than the edit buffer: BufCap + 1 letters x
LongLine == [i \in 1..(BufCap + 1) |-> 120]

\* Keys for exercising the line editor: the long line, "grow 5" with its
\* CR, "x" followed by DEL or by ^U, "x y", and the single keys.
EditChunks ==
    { LongLine, grow \o <<SP, 53, CR>>, <<120, DEL>>, <<120, CtrlU>>,
      <<120, SP, 121>>, <<DEL>>, <<CR>>, <<CtrlC>>, <<CtrlD>>, <<7>> }

\* ----------------------------------------------------------- output tokens
\* One emit()/println! argument: a literal text and, for formatted
\* messages, the bytes spliced into it.
Tok(s) == [txt |-> s, buf |-> <<>>]
Fmt(s, b) == [txt |-> s, buf |-> b]

ClearLine == Tok("\\r\\x1b[0K")
CRLF == Tok("\\r\\n")
Bell == Tok("\\x07")
Erase == Tok("\\x08 \\x08")

\* Results of line(), also the payload of Activity
NoRes == [k |-> "none", buf |-> <<>>, msg |-> ""]
ResLine(b) == [k |-> "Line", buf |-> b, msg |-> ""]
ResEnd == [k |-> "End", buf |-> <<>>, msg |-> ""]
ResErr(s) == [k |-> "Err", buf |-> <<>>, msg |-> s]

LineCallers == {"editor", "client"}

\* Threads that call log()
LogCallers == {"main", "timer", "logger"}

\* Threads that write to the terminal
Writers == LineCallers \cup LogCallers

VARIABLES
    \* term.rs: struct Inner
    state, input, eof, interrupted, ctrlc, buffer, log,
    \* term.rs: struct Term
    sigterm,
    \* number of times cleanup() has restored the original termios
    restores,
    \* holder of the Inner mutex ("none" when free); threads parked in
    \* Condvar::wait (no timeout) on the Inner condvar
    ilock, waiters,
    \* holder of the output mutex ("none" when free)
    olock,
    \* what the step just taken wrote to the terminal
    emitted,
    \* position of each caller inside line(), and its result
    lpc, lres,
    \* main.rs: editor thread, BusyGate, channel
    edpc, busy, chan,
    \* main.rs: dispatcher
    mpc, mlog, mnext, sz, c, allocs, verb, mlogs,
    \* main.rs: timer thread
    tpc,
    \* stdin thread and the tty in front of it
    rpc, pending,
    \* external events so far
    events,
    \* SpecApi: the second caller; SpecLog: the extra log() caller
    cpc, lgpc,
    \* SpecEmit: for each thread, what it has still to write of the run of
    \* emit() calls it is in the middle of
    wq,
    \* history: callers that were inside line() when a ^C was read; ^C bytes
    \* read; times the ctrlc flag was consumed; End results returned; whether
    \* the ctrlc flag now set was raised only while a command was executing
    hit, raised, taken, ends, ctrlcBusy,
    \* history: bytes line() has popped since the edit began; messages put
    \* into the log slot, and messages line() has rendered, in order; for
    \* each thread blocked in log(), how many messages had been put into the
    \* slot when it found the slot full (0: not blocked)
    fed, deposited, rendered, blockedAt,
    \* history: times line() has cleared the interrupted flag
    retries

termVars == <<state, input, eof, interrupted, ctrlc, buffer, log>>
lineVars == <<lpc, lres>>
mainVars == <<mpc, mlog, mnext, sz, c, allocs, verb, mlogs>>
timerVars == <<tpc>>
readerVars == <<rpc, pending, events>>
clientVars == <<cpc, lgpc, wq>>
gateVars == <<edpc, busy, chan>>
ctrlcHist == <<hit, raised, taken, ends, ctrlcBusy>>
editHist == <<fed, deposited, rendered, blockedAt>>
histVars == <<ctrlcHist, editHist>>

vars == <<state, input, eof, interrupted, ctrlc, buffer, log, sigterm,
          restores, ilock, waiters, emitted, lpc, lres, edpc, busy, chan,
          mpc, mlog, mnext, sz, c, allocs, verb, mlogs, tpc, rpc, pending,
          events, cpc, lgpc, wq, hit, raised, taken, ends, ctrlcBusy, fed,
          deposited, rendered, blockedAt, olock, retries>>

\* The process is alive until main returns.
Alive == mpc # "exit"

\* One more external event happens.
Event == events < MaxEvents /\ events' = events + 1

Init ==
    /\ state = "Rest"
    /\ input = <<>>
    /\ eof = FALSE
    /\ interrupted = FALSE
    /\ ctrlc = FALSE
    /\ buffer = <<>>
    /\ log = <<>>
    /\ sigterm = FALSE
    /\ restores = 0
    /\ ilock = "none"
    /\ waiters = {}
    /\ emitted = <<>>
    /\ lpc = [t \in LineCallers |-> "idle"]
    /\ lres = [t \in LineCallers |-> NoRes]
    /\ edpc = "gate"
    /\ busy = FALSE
    /\ chan = <<>>
    /\ mpc = "recv"
    /\ mlog = <<>>
    /\ mnext = "recv"
    /\ sz = 0
    /\ c = 0
    /\ allocs = 0
    /\ verb = "none"
    /\ mlogs = 0
    /\ tpc = "sleep"
    /\ rpc = "read"
    /\ pending = <<>>
    /\ events = 0
    /\ cpc = "idle"
    /\ hit = {}
    /\ raised = 0
    /\ taken = 0
    /\ ends = 0
    /\ ctrlcBusy = FALSE
    /\ lgpc = "idle"
    /\ wq = [t \in Writers |-> <<>>]
    /\ fed = <<>>
    /\ deposited = <<>>
    /\ rendered = <<>>
    /\ blockedAt = [t \in LogCallers |-> 0]
    /\ olock = "none"
    /\ retries = 0

\* ------------------------------------------------------------ the keyboard
\* The user types the next chunk; the tty holds it until the reader reads.
Type ==
    /\ Alive
    /\ Event
    /\ pending = <<>>
    /\ \E ch \in Chunks : pending' = ch
    /\ emitted' = <<>>
    /\ UNCHANGED <<termVars, sigterm, olock, retries, restores, ilock,
                   waiters, lineVars, gateVars, mainVars, timerVars, rpc,
                   clientVars, histVars>>

\* The same, at the keys that exercise the line editor.
TypeKeys ==
    /\ Alive
    /\ Event
    /\ pending = <<>>
    /\ \E ch \in EditChunks : pending' = ch
    /\ emitted' = <<>>
    /\ UNCHANGED <<termVars, sigterm, olock, retries, restores, ilock,
                   waiters, lineVars, gateVars, mainVars, timerVars, rpc,
                   clientVars, histVars>>

\* SIGTERM is delivered: signal_hook sets the registered flag.
Sigterm ==
    /\ Alive
    /\ Event
    /\ ~sigterm
    /\ sigterm' = TRUE
    /\ emitted' = <<>>
    /\ UNCHANGED <<termVars, restores, olock, retries, ilock, waiters,
                   lineVars, gateVars, mainVars, timerVars, rpc, pending,
                   clientVars, histVars>>

\* Caller t is inside an edit: past line()'s entry and not yet returned.
InEdit(t) == lpc[t] \in {"loop", "emit", "wait", "cleanup"}

\* The dispatcher has taken an activity and has not yet released the gate.
Executing == mpc \in {"grow_busy", "touch", "grow", "log", "unbusy"}

\* A command is executing: the dispatcher is at work on it, BusyFlag is set
\* and no line() call is in progress.
DuringCommand == Executing /\ busy /\ \A t \in LineCallers : lpc[t] = "idle"

\* ------------------------------------------------------- the stdin thread
\* a reader that queues ^C like any other byte
ReadByteQueueAll ==
    /\ Alive
    /\ rpc = "read"
    /\ pending # <<>>
    /\ ilock = "none"
    /\ input' = Append(input, Head(pending))
    /\ pending' = Tail(pending)
    /\ waiters' = {}
    /\ emitted' = <<>>
    /\ UNCHANGED <<state, eof, interrupted, ctrlc, buffer, log, sigterm,
                   olock, retries, restores, ilock, lineVars, gateVars,
                   mainVars, timerVars, rpc, events, clientVars, histVars>>

\* Ok(1): ^C drops the inbound queue and raises ctrlc; any other byte is queued.
ReadByte ==
    /\ Alive
    /\ rpc = "read"
    /\ pending # <<>>
    /\ ilock = "none"
    /\ IF Head(pending) = CtrlC
         THEN /\ ctrlc' = TRUE
              /\ input' = <<>>
              /\ raised' = raised + 1
              /\ hit' = hit \cup {t \in LineCallers : InEdit(t)}
              /\ ctrlcBusy' = (DuringCommand /\ (ctrlc => ctrlcBusy))
         ELSE /\ input' = Append(input, Head(pending))
              /\ UNCHANGED <<ctrlc, raised, hit, ctrlcBusy>>
    /\ pending' = Tail(pending)
    /\ waiters' = {}
    /\ emitted' = <<>>
    /\ UNCHANGED <<state, eof, interrupted, buffer, log, sigterm, olock,
                   retries, restores, ilock, lineVars, gateVars, mainVars,
                   timerVars, rpc, events, clientVars, taken, ends, editHist>>

\* a reader that sets eof and goes on reading
ReadEofGoesOn ==
    /\ Alive
    /\ rpc = "read"
    /\ pending = <<>>
    /\ ilock = "none"
    /\ Event
    /\ eof' = TRUE
    /\ waiters' = {}
    /\ emitted' = <<>>
    /\ UNCHANGED <<state, input, interrupted, ctrlc, buffer, log, sigterm,
                   olock, retries, restores, ilock, lineVars, gateVars,
                   mainVars, timerVars, rpc, pending, clientVars, histVars>>

\* Ok(0): end of input; the thread returns.
ReadEof ==
    /\ Alive
    /\ rpc = "read"
    /\ pending = <<>>
    /\ ilock = "none"
    /\ Event
    /\ eof' = TRUE
    /\ rpc' = "done"
    /\ waiters' = {}
    /\ emitted' = <<>>
    /\ UNCHANGED <<state, input, interrupted, ctrlc, buffer, log, sigterm,
                   olock, retries, restores, ilock, lineVars, gateVars,
                   mainVars, timerVars, pending, clientVars, histVars>>

\* Err(Interrupted): a retry hint.
ReadInterrupted ==
    /\ Alive
    /\ rpc = "read"
    /\ ilock = "none"
    /\ Event
    /\ interrupted' = TRUE
    /\ waiters' = {}
    /\ emitted' = <<>>
    /\ UNCHANGED <<state, input, eof, ctrlc, buffer, log, sigterm, olock,
                   retries, restores, ilock, lineVars, gateVars, mainVars,
                   timerVars, rpc, pending, clientVars, histVars>>

\* Any other read error: the thread returns silently.
ReadError ==
    /\ Alive
    /\ rpc = "read"
    /\ Event
    /\ rpc' = "done"
    /\ emitted' = <<>>
    /\ UNCHANGED <<termVars, sigterm, olock, retries, restores, ilock,
                   waiters, lineVars, gateVars, mainVars, timerVars, pending,
                   clientVars, histVars>>

\* ------------------------------------------------------------ Term: output
redraw_prompt(buf) == <<ClearLine, Tok(prompt), Fmt("", buf)>>

log_while_editing(buf, msg) == <<ClearLine, msg, CRLF>> \o redraw_prompt(buf)

\* ----------------------------------------------------------- Term::cleanup
\* cleanup without its CleanedUp check
cleanupNoCheck ==
    /\ ilock = "none"
    /\ emitted' = <<CRLF>>
    /\ restores' = restores + 1
    /\ state' = "CleanedUp"
    /\ waiters' = {}

\* Under the Inner lock: nothing if already CleanedUp; otherwise a line
\* break, the original termios restored, state CleanedUp, notify_all.
cleanup ==
    /\ ilock = "none"
    /\ IF state = "CleanedUp"
         THEN /\ emitted' = <<>>
              /\ UNCHANGED <<state, restores, waiters>>
         ELSE /\ emitted' = <<CRLF>>
              /\ restores' = restores + 1
              /\ state' = "CleanedUp"
              /\ waiters' = {}

\* --------------------------------------------------------------- Term::log
\* Whether a log() call that takes the lock now returns (rather than waits).
LogReturns == state # "Editing" \/ log = <<>>

\* log that leaves out the line terminator in state Rest
LogNoTerminator(t, msg) ==
    /\ ilock = "none"
    /\ t \notin waiters
    /\ CASE state = "Rest" ->
              /\ emitted' = <<msg>>
              /\ UNCHANGED <<log, waiters>>
         [] state = "CleanedUp" ->
              /\ emitted' = <<msg, Tok("\\n")>>
              /\ UNCHANGED <<log, waiters>>
         [] state = "Editing" /\ log = <<>> ->
              /\ log' = <<msg>>
              /\ waiters' = {}
              /\ emitted' = <<>>
         [] state = "Editing" /\ log # <<>> ->
              /\ waiters' = waiters \cup {t}
              /\ emitted' = <<>>
              /\ UNCHANGED log
    /\ deposited' = IF state = "Editing" /\ log = <<>>
                      THEN Append(deposited, msg) ELSE deposited
    /\ blockedAt' = [blockedAt EXCEPT
                       ![t] = IF LogReturns THEN 0
                              ELSE IF @ = 0 THEN Len(deposited) ELSE @]

\* log that puts its message into the slot whether or not it is free
LogOverwrite(t, msg) ==
    /\ ilock = "none"
    /\ t \notin waiters
    /\ CASE state = "Rest" ->
              /\ emitted' = <<msg, CRLF>>
              /\ UNCHANGED <<log, waiters>>
         [] state = "CleanedUp" ->
              /\ emitted' = <<msg, Tok("\\n")>>
              /\ UNCHANGED <<log, waiters>>
         [] state = "Editing" ->
              /\ log' = <<msg>>
              /\ waiters' = {}
              /\ emitted' = <<>>
    /\ deposited' = IF state = "Editing"
                      THEN Append(deposited, msg) ELSE deposited
    /\ blockedAt' = [blockedAt EXCEPT ![t] = 0]

\* log that writes through emit() after cleanup as it does at rest
LogRawAfterCleanup(t, msg) ==
    /\ ilock = "none"
    /\ t \notin waiters
    /\ CASE state \in {"Rest", "CleanedUp"} ->
              /\ emitted' = <<msg, CRLF>>
              /\ UNCHANGED <<log, waiters>>
         [] state = "Editing" /\ log = <<>> ->
              /\ log' = <<msg>>
              /\ waiters' = {}
              /\ emitted' = <<>>
         [] state = "Editing" /\ log # <<>> ->
              /\ waiters' = waiters \cup {t}
              /\ emitted' = <<>>
              /\ UNCHANGED log
    /\ deposited' = IF state = "Editing" /\ log = <<>>
                      THEN Append(deposited, msg) ELSE deposited
    /\ blockedAt' = [blockedAt EXCEPT
                       ![t] = IF LogReturns THEN 0
                              ELSE IF @ = 0 THEN Len(deposited) ELSE @]

\* One pass of thread t through log(msg), from taking the lock to the
\* return or to the condvar wait.
Log(t, msg) ==
    /\ ilock = "none"
    /\ t \notin waiters
    /\ CASE state = "Rest" ->
              /\ emitted' = <<msg, CRLF>>
              /\ UNCHANGED <<log, waiters>>
         [] state = "CleanedUp" ->
              /\ emitted' = <<msg, Tok("\\n")>>
              /\ UNCHANGED <<log, waiters>>
         [] state = "Editing" /\ log = <<>> ->
              /\ log' = <<msg>>
              /\ waiters' = {}
              /\ emitted' = <<>>
         [] state = "Editing" /\ log # <<>> ->
              /\ waiters' = waiters \cup {t}
              /\ emitted' = <<>>
              /\ UNCHANGED log
    /\ deposited' = IF state = "Editing" /\ log = <<>>
                      THEN Append(deposited, msg) ELSE deposited
    /\ blockedAt' = [blockedAt EXCEPT
                       ![t] = IF LogReturns THEN 0
                              ELSE IF @ = 0 THEN Len(deposited) ELSE @]

\* -------------------------------------------------------------- Term::line
\* line() that starts an edit from CleanedUp as it does from Rest
LineEnterAfterCleanup(t) ==
    /\ Alive
    /\ lpc[t] = "call"
    /\ ilock = "none"
    /\ CASE state \in {"Rest", "CleanedUp"} ->
              /\ buffer' = <<>>
              /\ state' = "Editing"
              /\ waiters' = {}
              /\ emitted' = <<Tok(prompt)>>
              /\ ilock' = t
              /\ lpc' = [lpc EXCEPT ![t] = "loop"]
              /\ fed' = <<>>
              /\ UNCHANGED lres
         [] state = "Editing" ->
              /\ lres' = [lres EXCEPT
                            ![t] = ResErr("another thread is already editing")]
              /\ lpc' = [lpc EXCEPT ![t] = "ret"]
              /\ emitted' = <<>>
              /\ UNCHANGED <<buffer, state, waiters, ilock, fed>>
    /\ UNCHANGED <<input, eof, interrupted, ctrlc, log, sigterm, olock,
                   retries, restores, gateVars, mainVars, timerVars,
                   readerVars, clientVars, ctrlcHist, deposited, rendered,
                   blockedAt>>

\* line() that starts an edit although another caller is editing
LineEnterWhileEditing(t) ==
    /\ Alive
    /\ lpc[t] = "call"
    /\ ilock = "none"
    /\ CASE state \in {"Rest", "Editing"} ->
              /\ buffer' = <<>>
              /\ state' = "Editing"
              /\ waiters' = {}
              /\ emitted' = <<Tok(prompt)>>
              /\ ilock' = t
              /\ lpc' = [lpc EXCEPT ![t] = "loop"]
              /\ fed' = <<>>
              /\ UNCHANGED lres
         [] state = "CleanedUp" ->
              /\ lres' = [lres EXCEPT ![t] = ResErr("cleaned up already")]
              /\ lpc' = [lpc EXCEPT ![t] = "ret"]
              /\ emitted' = <<>>
              /\ UNCHANGED <<buffer, state, waiters, ilock, fed>>
    /\ UNCHANGED <<input, eof, interrupted, ctrlc, log, sigterm, olock,
                   retries, restores, gateVars, mainVars, timerVars,
                   readerVars, clientVars, ctrlcHist, deposited, rendered,
                   blockedAt>>

\* Entry: Rest -> Editing with the buffer cleared and the prompt emitted;
\* any other state bails without touching anything.
LineEnter(t) ==
    /\ Alive
    /\ lpc[t] = "call"
    /\ ilock = "none"
    /\ CASE state = "Rest" ->
              /\ buffer' = <<>>
              /\ state' = "Editing"
              /\ waiters' = {}
              /\ emitted' = <<Tok(prompt)>>
              /\ ilock' = t
              /\ lpc' = [lpc EXCEPT ![t] = "loop"]
              /\ fed' = <<>>
              /\ UNCHANGED lres
         [] state = "Editing" ->
              /\ lres' = [lres EXCEPT
                            ![t] = ResErr("another thread is already editing")]
              /\ lpc' = [lpc EXCEPT ![t] = "ret"]
              /\ emitted' = <<>>
              /\ UNCHANGED <<buffer, state, waiters, ilock, fed>>
         [] state = "CleanedUp" ->
              /\ lres' = [lres EXCEPT ![t] = ResErr("cleaned up already")]
              /\ lpc' = [lpc EXCEPT ![t] = "ret"]
              /\ emitted' = <<>>
              /\ UNCHANGED <<buffer, state, waiters, ilock, fed>>
    /\ UNCHANGED <<input, eof, interrupted, ctrlc, log, sigterm, olock,
                   retries, restores, gateVars, mainVars, timerVars,
                   readerVars, clientVars, ctrlcHist, deposited, rendered,
                   blockedAt>>

\* Caller t is at the top of line()'s loop, holding the Inner lock.
AtLoop(t) == Alive /\ lpc[t] = "loop" /\ ilock = t

\* drop(i); the caller goes on to self.cleanup() and return Ok(Line::End)
ToCleanup(t) ==
    /\ ilock' = "none"
    /\ lpc' = [lpc EXCEPT ![t] = "cleanup"]

\* 1. SIGTERM observed
LineSigterm(t) ==
    /\ AtLoop(t)
    /\ sigterm
    /\ ToCleanup(t)
    /\ emitted' = <<>>
    /\ UNCHANGED <<termVars, sigterm, olock, retries, restores, waiters, lres,
                   gateVars, mainVars, timerVars, readerVars, clientVars,
                   histVars>>

\* line() that clears ctrlc and carries on editing
LineCtrlcIgnore(t) ==
    /\ AtLoop(t)
    /\ ~sigterm
    /\ ctrlc
    /\ ctrlc' = FALSE
    /\ taken' = taken + 1
    /\ ctrlcBusy' = FALSE
    /\ emitted' = <<>>
    /\ UNCHANGED <<state, input, eof, interrupted, buffer, log, sigterm,
                   olock, retries, restores, ilock, waiters, lineVars,
                   gateVars, mainVars, timerVars, readerVars, clientVars, hit,
                   raised, ends, editHist>>

\* 2. ctrlc set: clear it, clean up, end of stream
LineCtrlc(t) ==
    /\ AtLoop(t)
    /\ ~sigterm
    /\ ctrlc
    /\ ctrlc' = FALSE
    /\ taken' = taken + 1
    /\ ctrlcBusy' = FALSE
    /\ ToCleanup(t)
    /\ emitted' = <<>>
    /\ UNCHANGED <<state, input, eof, interrupted, buffer, log, sigterm,
                   olock, retries, restores, waiters, lres, gateVars,
                   mainVars, timerVars, readerVars, clientVars, hit, raised,
                   ends, editHist>>

\* line() that treats an interrupted read as the end of the stream
LineInterruptedEnds(t) ==
    /\ AtLoop(t)
    /\ ~sigterm /\ ~ctrlc
    /\ interrupted
    /\ interrupted' = FALSE
    /\ retries' = retries + 1
    /\ ToCleanup(t)
    /\ emitted' = <<>>
    /\ UNCHANGED <<state, input, eof, ctrlc, buffer, log, sigterm, olock,
                   restores, waiters, lres, gateVars, mainVars, timerVars,
                   readerVars, clientVars, histVars>>

\* 3. interrupted set: clear it and go round again
LineInterrupted(t) ==
    /\ AtLoop(t)
    /\ ~sigterm /\ ~ctrlc
    /\ interrupted
    /\ interrupted' = FALSE
    /\ retries' = retries + 1
    /\ emitted' = <<>>
    /\ UNCHANGED <<state, input, eof, ctrlc, buffer, log, sigterm, olock,
                   restores, ilock, waiters, lineVars, gateVars, mainVars,
                   timerVars, readerVars, clientVars, histVars>>

\* line() that resets eof when it acts on it
LineEofClears(t) ==
    /\ AtLoop(t)
    /\ ~sigterm /\ ~ctrlc /\ ~interrupted
    /\ eof
    /\ eof' = FALSE
    /\ ToCleanup(t)
    /\ emitted' = <<>>
    /\ UNCHANGED <<state, input, interrupted, ctrlc, buffer, log, sigterm,
                   olock, retries, restores, waiters, lres, gateVars,
                   mainVars, timerVars, readerVars, clientVars, histVars>>

\* 4. eof set
LineEof(t) ==
    /\ AtLoop(t)
    /\ ~sigterm /\ ~ctrlc /\ ~interrupted
    /\ eof
    /\ ToCleanup(t)
    /\ emitted' = <<>>
    /\ UNCHANGED <<termVars, sigterm, olock, retries, restores, waiters, lres,
                   gateVars, mainVars, timerVars, readerVars, clientVars,
                   histVars>>

\* line() that prints a pending log and leaves the prompt undrawn
LineLogNoRedraw(t) ==
    /\ AtLoop(t)
    /\ ~sigterm /\ ~ctrlc /\ ~interrupted /\ ~eof
    /\ log # <<>>
    /\ log' = <<>>
    /\ waiters' = {}
    /\ emitted' = <<ClearLine, Head(log), CRLF>>
    /\ rendered' = Append(rendered, Head(log))
    /\ UNCHANGED <<state, input, eof, interrupted, ctrlc, buffer, sigterm,
                   olock, retries, restores, ilock, lineVars, gateVars,
                   mainVars, timerVars, readerVars, clientVars, ctrlcHist,
                   fed, deposited, blockedAt>>

\* 5. a pending log: take it, notify, print it above a redrawn prompt
LineLog(t) ==
    /\ AtLoop(t)
    /\ ~sigterm /\ ~ctrlc /\ ~interrupted /\ ~eof
    /\ log # <<>>
    /\ log' = <<>>
    /\ waiters' = {}
    /\ emitted' = log_while_editing(buffer, Head(log))
    /\ rendered' = Append(rendered, Head(log))
    /\ UNCHANGED <<state, input, eof, interrupted, ctrlc, buffer, sigterm,
                   olock, retries, restores, ilock, lineVars, gateVars,
                   mainVars, timerVars, readerVars, clientVars, ctrlcHist,
                   fed, deposited, blockedAt>>

\* the loop with the eof test after the input queue
QuietEofLast == ~sigterm /\ ~ctrlc /\ ~interrupted /\ log = <<>>

\* No earlier condition of the loop holds.
Quiet == ~sigterm /\ ~ctrlc /\ ~interrupted /\ ~eof /\ log = <<>>

\* 6a. the queue is empty: wait on the condvar (with a timeout)
LineWait(t) ==
    /\ AtLoop(t)
    /\ Quiet
    /\ input = <<>>
    /\ ilock' = "none"
    /\ lpc' = [lpc EXCEPT ![t] = "wait"]
    /\ emitted' = <<>>
    /\ UNCHANGED <<termVars, sigterm, olock, retries, restores, waiters, lres,
                   gateVars, mainVars, timerVars, readerVars, clientVars,
                   histVars>>

\* the wait returns (notified or timed out) with the lock retaken
LineWake(t) ==
    /\ Alive
    /\ lpc[t] = "wait"
    /\ ilock = "none"
    /\ ilock' = t
    /\ lpc' = [lpc EXCEPT ![t] = "loop"]
    /\ emitted' = <<>>
    /\ UNCHANGED <<termVars, sigterm, olock, retries, restores, waiters, lres,
                   gateVars, mainVars, timerVars, readerVars, clientVars,
                   histVars>>

\* a graphic byte put in front of the buffer
EditGraphicFront(buf, b) ==
    IF Len(buf) < BufCap
      THEN [buf |-> <<b>> \o buf, out |-> <<Fmt("", <<b>>)>>]
      ELSE [buf |-> buf, out |-> <<>>]

\* a graphic byte appended without looking at the length
EditGraphicNoCap(buf, b) ==
    [buf |-> Append(buf, b), out |-> <<Fmt("", <<b>>)>>]

\* A graphic byte or a space: appended and echoed while there is room
EditGraphic(buf, b) ==
    IF Len(buf) < BufCap
      THEN [buf |-> Append(buf, b), out |-> <<Fmt("", <<b>>)>>]
      ELSE [buf |-> buf, out |-> <<>>]

\* CR with the buffer cleared before it is copied
EditSubmitAfterClear(buf) ==
    [res |-> ResLine(<<>>), buf |-> <<>>, out |-> <<CRLF>>]

\* CR: the line handed back, the buffer cleared, a line break
EditSubmit(buf) == [res |-> ResLine(buf), buf |-> <<>>, out |-> <<CRLF>>]

\* DEL that erases without looking at the buffer
EditBackspaceBlind(buf) ==
    [buf |-> SubSeq(buf, 1, Len(buf) - 1), out |-> <<Erase>>]

\* DEL: the last character removed and erased, if there is one
EditBackspace(buf) ==
    IF buf # <<>>
      THEN [buf |-> SubSeq(buf, 1, Len(buf) - 1), out |-> <<Erase>>]
      ELSE [buf |-> buf, out |-> <<>>]

\* ^U that redraws the prompt over the buffer as it is
EditKillKeeps(buf) == [buf |-> buf, out |-> redraw_prompt(buf)]

\* ^U: the buffer cleared and the prompt redrawn
EditKill(buf) == [buf |-> <<>>, out |-> redraw_prompt(<<>>)]

\* Any other byte: reported above the redrawn prompt, and the bell
EditUnknown(buf, b) ==
    [buf |-> buf,
     out |-> log_while_editing(buf, Fmt("unknown b: ", <<b>>)) \o <<Bell>>]

\* 6b. pop one byte and process it
LineByte(t) ==
    /\ AtLoop(t)
    /\ Quiet
    /\ input # <<>>
    /\ input' = Tail(input)
    /\ fed' = Append(fed, Head(input))
    /\ waiters' = {}
    /\ LET b == Head(input) IN
       CASE IsAsciiGraphic(b) \/ b = SP ->
              /\ buffer' = EditGraphic(buffer, b).buf
              /\ emitted' = EditGraphic(buffer, b).out
              /\ UNCHANGED <<state, ilock, lineVars>>
         [] b = CtrlC \/ b = CtrlD ->
              /\ ToCleanup(t)
              /\ emitted' = <<>>
              /\ UNCHANGED <<state, buffer, lres>>
         [] b = CR ->
              /\ state' = "Rest"
              /\ buffer' = EditSubmit(buffer).buf
              /\ emitted' = EditSubmit(buffer).out
              /\ lres' = [lres EXCEPT ![t] = EditSubmit(buffer).res]
              /\ lpc' = [lpc EXCEPT ![t] = "ret"]
              /\ ilock' = "none"
         [] b = DEL ->
              /\ buffer' = EditBackspace(buffer).buf
              /\ emitted' = EditBackspace(buffer).out
              /\ UNCHANGED <<state, ilock, lineVars>>
         [] b = CtrlU ->
              /\ buffer' = EditKill(buffer).buf
              /\ emitted' = EditKill(buffer).out
              /\ UNCHANGED <<state, ilock, lineVars>>
         [] OTHER ->
              /\ buffer' = EditUnknown(buffer, b).buf
              /\ emitted' = EditUnknown(buffer, b).out
              /\ UNCHANGED <<state, ilock, lineVars>>
    /\ UNCHANGED <<eof, interrupted, ctrlc, log, sigterm, olock, retries,
                   restores, gateVars, mainVars, timerVars, readerVars,
                   clientVars, ctrlcHist, deposited, rendered, blockedAt>>

\* line() that returns Line::End without calling cleanup()
LineCleanupSkipped(t) ==
    /\ Alive
    /\ lpc[t] = "cleanup"
    /\ ilock = "none"
    /\ emitted' = <<>>
    /\ lres' = [lres EXCEPT ![t] = ResEnd]
    /\ lpc' = [lpc EXCEPT ![t] = "ret"]
    /\ ends' = ends + 1
    /\ UNCHANGED <<termVars, sigterm, olock, retries, restores, waiters,
                   ilock, gateVars, mainVars, timerVars, readerVars,
                   clientVars, hit, raised, taken, ctrlcBusy, editHist>>

\* self.cleanup(); return Ok(Line::End)
LineCleanup(t) ==
    /\ Alive
    /\ lpc[t] = "cleanup"
    /\ cleanup
    /\ lres' = [lres EXCEPT ![t] = ResEnd]
    /\ lpc' = [lpc EXCEPT ![t] = "ret"]
    /\ ends' = ends + 1
    /\ UNCHANGED <<input, eof, interrupted, ctrlc, buffer, log, sigterm,
                   olock, retries, ilock, gateVars, mainVars, timerVars,
                   readerVars, clientVars, hit, raised, taken, ctrlcBusy,
                   editHist>>

\* --------------------------------------------------- main.rs: editor thread
\* an editor thread that does not wait for the BusyGate
EditorGateNoWait ==
    /\ Alive
    /\ edpc = "gate"
    /\ edpc' = "line"
    /\ lpc' = [lpc EXCEPT !["editor"] = "call"]
    /\ emitted' = <<>>
    /\ UNCHANGED <<termVars, sigterm, olock, retries, restores, ilock,
                   waiters, lres, busy, chan, mainVars, timerVars, readerVars,
                   clientVars, histVars>>

\* while i.busy { wait }: the gate opens when busy is false
EditorGate ==
    /\ Alive
    /\ edpc = "gate"
    /\ ~busy
    /\ edpc' = "line"
    /\ lpc' = [lpc EXCEPT !["editor"] = "call"]
    /\ emitted' = <<>>
    /\ UNCHANGED <<termVars, sigterm, olock, retries, restores, ilock,
                   waiters, lres, busy, chan, mainVars, timerVars, readerVars,
                   clientVars, histVars>>

\* ed.line() returned: Ok(l) sets busy; Err(e) is sent and the thread returns
EditorReturn ==
    /\ Alive
    /\ edpc = "line"
    /\ lpc["editor"] = "ret"
    /\ lpc' = [lpc EXCEPT !["editor"] = "idle"]
    /\ IF lres["editor"].k = "Err"
         THEN /\ chan' = Append(chan, lres["editor"])
              /\ edpc' = "done"
              /\ UNCHANGED busy
         ELSE /\ busy' = TRUE
              /\ edpc' = "send"
              /\ UNCHANGED chan
    /\ hit' = hit \ {"editor"}
    /\ emitted' = <<>>
    /\ UNCHANGED <<termVars, sigterm, olock, retries, restores, ilock,
                   waiters, lres, mainVars, timerVars, readerVars, clientVars,
                   raised, taken, ends, ctrlcBusy, editHist>>

\* tx.send(Activity::Line(l))
EditorSend ==
    /\ Alive
    /\ edpc = "send"
    /\ chan' = Append(chan, lres["editor"])
    /\ edpc' = "gate"
    /\ emitted' = <<>>
    /\ UNCHANGED <<termVars, sigterm, olock, retries, restores, ilock,
                   waiters, lineVars, busy, mainVars, timerVars, readerVars,
                   clientVars, histVars>>

\* ------------------------------------------------------ main.rs: dispatcher
RECURSIVE Split(_, _, _)
Split(s, cur, acc) ==
    IF s = <<>>
      THEN IF cur = <<>> THEN acc ELSE Append(acc, cur)
      ELSE IF Head(s) = SP
             THEN Split(Tail(s), <<>>,
                        IF cur = <<>> THEN acc ELSE Append(acc, cur))
             ELSE Split(Tail(s), Append(cur, Head(s)), acc)

\* str::split_whitespace on a line of graphic bytes and spaces
split_whitespace(l) == Split(l, <<>>, <<>>)

\* str::parse::<usize>: an optional '+', then one or more decimal digits
ParseDigits(tok) == IF tok # <<>> /\ tok[1] = 43 THEN Tail(tok) ELSE tok

ParseOk(tok) ==
    /\ ParseDigits(tok) # <<>>
    /\ \A i \in 1..Len(ParseDigits(tok)) : ParseDigits(tok)[i] \in Digits

RECURSIVE DecimalValue(_)
DecimalValue(d) ==
    IF d = <<>>
      THEN 0
      ELSE 10 * DecimalValue(SubSeq(d, 1, Len(d) - 1)) + (d[Len(d)] - 48)

ParseUsize(tok) == DecimalValue(ParseDigits(tok))

\* What a received line makes the dispatcher do
VerbOf(t) ==
    CASE t = <<>> -> "empty"
      [] t # <<>> /\ t[1] = touch -> "touch"
      [] t # <<>> /\ t[1] = grow ->
           IF Len(t) < 2 THEN "grow_noarg"
           ELSE IF ParseOk(t[2]) THEN "grow" ELSE "grow_badarg"
      [] OTHER -> "unknown"

\* a dispatcher that drops an unknown verb without a word
DispatchSilent(v) ==
    CASE v \in {"empty", "unknown"} -> "unbusy"
      [] v = "touch" -> "touch"
      [] v = "grow" -> "grow_busy"
      [] OTHER -> "log"

\* The pc a verb is dispatched to
Dispatch(v) ==
    CASE v = "empty" -> "unbusy"
      [] v = "touch" -> "touch"
      [] v = "grow" -> "grow_busy"
      [] OTHER -> "log"

\* The message a rejected line is answered with
RejectMsg(v, t) ==
    CASE v = "grow_noarg" -> <<Tok("grow by how much?")>>
      [] v = "grow_badarg" -> <<Tok("invalid digit found in string")>>
      [] v = "unknown" -> <<Fmt(" not understood", t[1])>>
      [] OTHER -> <<>>

\* Where the dispatcher goes after answering a rejected line
AfterReject(v) == IF v = "unknown" THEN "unbusy" ELSE "recv"

\* rx.recv() and the match on the activity
MainRecv ==
    /\ mpc = "recv"
    /\ chan # <<>>
    /\ chan' = Tail(chan)
    /\ mlogs' = 0
    /\ LET a == Head(chan)
           t == split_whitespace(a.buf)
           v == VerbOf(t)
       IN CASE a.k = "Line" ->
                 /\ verb' = v
                 /\ mpc' = Dispatch(v)
                 /\ mlog' = RejectMsg(v, t)
                 /\ mnext' = AfterReject(v)
                 /\ sz' = IF v = "grow"
                            THEN ParseUsize(t[2]) * Kilo * Kilo
                            ELSE 0
                 /\ c' = 0
            [] a.k = "End" ->
                 /\ verb' = "end"
                 /\ mpc' = "log"
                 /\ mlog' = <<Tok(" * end!")>>
                 /\ mnext' = "cleanup"
                 /\ UNCHANGED <<sz, c>>
            [] OTHER ->
                 /\ verb' = "error"
                 /\ mpc' = "cleanup"
                 /\ UNCHANGED <<mlog, mnext, sz, c>>
    /\ emitted' = <<>>
    /\ UNCHANGED <<termVars, sigterm, olock, retries, restores, ilock,
                   waiters, lineVars, edpc, busy, allocs, timerVars,
                   readerVars, clientVars, histVars>>

\* grow: fm.inner.0.lock().unwrap().busy = true
MainGrowBusy ==
    /\ mpc = "grow_busy"
    /\ busy' = TRUE
    /\ mpc' = "grow"
    /\ emitted' = <<>>
    /\ UNCHANGED <<termVars, sigterm, olock, retries, restores, ilock,
                   waiters, lineVars, edpc, chan, mlog, mnext, sz, c, allocs,
                   verb, mlogs, timerVars, readerVars, clientVars, histVars>>

\* Bytes the running command has to work through
WorkTotal == IF mpc = "touch" THEN allocs ELSE sz

\* take_ctrlc that reports the flag without clearing it
take_ctrlcKeep ==
    /\ ilock = "none"
    /\ UNCHANGED ctrlc
    /\ taken' = IF ctrlc THEN taken + 1 ELSE taken
    /\ ctrlcBusy' = FALSE

\* Term::take_ctrlc, up to drop(i): consume the flag if it is set
take_ctrlc ==
    /\ ilock = "none"
    /\ ctrlc' = FALSE
    /\ taken' = IF ctrlc THEN taken + 1 ELSE taken
    /\ ctrlcBusy' = FALSE

\* The work loop runs to its next c % 10000 == 0 and asks take_ctrlc();
\* on true: log("^C") inside take_ctrlc, then log("interrupted!"), unbusy.
MainCheckpoint ==
    /\ mpc \in {"touch", "grow"}
    /\ c + CheckEvery <= WorkTotal
    /\ c' = c + CheckEvery
    /\ take_ctrlc
    /\ IF ctrlc
         THEN /\ mpc' = "log"
              /\ mlog' = <<Tok("^C"), Tok("interrupted!")>>
              /\ mnext' = "unbusy"
         ELSE UNCHANGED <<mpc, mlog, mnext>>
    /\ emitted' = <<>>
    /\ UNCHANGED <<state, input, eof, interrupted, buffer, log, sigterm,
                   olock, retries, restores, ilock, waiters, lineVars,
                   gateVars, sz, allocs, verb, mlogs, timerVars, readerVars,
                   clientVars, hit, raised, ends, editHist>>

\* The work loop ends: grow keeps the new allocation; both report and unbusy.
MainFinish ==
    /\ mpc \in {"touch", "grow"}
    /\ c + CheckEvery > WorkTotal
    /\ IF mpc = "grow"
         THEN /\ allocs' = allocs + sz
              /\ mlog' = <<Fmt("grew by megabytes", <<(sz \div Kilo) \div Kilo>>)>>
         ELSE /\ mlog' = <<Fmt("touched megabytes",
                               <<(allocs \div Kilo) \div Kilo>>)>>
              /\ UNCHANGED allocs
    /\ mpc' = "log"
    /\ mnext' = "unbusy"
    /\ emitted' = <<>>
    /\ UNCHANGED <<termVars, sigterm, olock, retries, restores, ilock,
                   waiters, lineVars, gateVars, sz, c, verb, mlogs, timerVars,
                   readerVars, clientVars, histVars>>

\* ed.log(..) of the next message the dispatcher owes
MainLog ==
    /\ mpc = "log"
    /\ Log("main", Head(mlog))
    /\ IF LogReturns
         THEN /\ mlog' = Tail(mlog)
              /\ mlogs' = mlogs + 1
              /\ mpc' = IF Tail(mlog) = <<>> THEN mnext ELSE "log"
         ELSE UNCHANGED <<mlog, mlogs, mpc>>
    /\ UNCHANGED <<state, input, eof, interrupted, ctrlc, buffer, sigterm,
                   olock, retries, restores, ilock, lineVars, gateVars, mnext,
                   sz, c, allocs, verb, timerVars, readerVars, clientVars,
                   ctrlcHist, fed, rendered>>

\* FillMem::unbusy
unbusy ==
    /\ busy' = FALSE

MainUnbusy ==
    /\ mpc = "unbusy"
    /\ unbusy
    /\ mpc' = "recv"
    /\ emitted' = <<>>
    /\ UNCHANGED <<termVars, sigterm, olock, retries, restores, ilock,
                   waiters, lineVars, edpc, chan, mlog, mnext, sz, c, allocs,
                   verb, mlogs, timerVars, readerVars, clientVars, histVars>>

\* ed.cleanup() and main returns: the process ends
MainCleanup ==
    /\ mpc = "cleanup"
    /\ cleanup
    /\ mpc' = "exit"
    /\ UNCHANGED <<input, eof, interrupted, ctrlc, buffer, log, sigterm,
                   olock, retries, ilock, lineVars, gateVars, mlog, mnext, sz,
                   c, allocs, verb, mlogs, timerVars, readerVars, clientVars,
                   histVars>>

\* ----------------------------------------------------- main.rs: timer thread
\* The sleep ends. The thread may find itself sluggish and warn; it may
\* fail chain_update and go round again; otherwise it logs the statistics.
TimerTick ==
    /\ Alive
    /\ tpc = "sleep"
    /\ Event
    /\ tpc' \in {"sluggish", "stats", "sleep"}
    /\ emitted' = <<>>
    /\ UNCHANGED <<termVars, sigterm, olock, retries, restores, ilock,
                   waiters, lineVars, gateVars, mainVars, rpc, pending,
                   clientVars, histVars>>

TimerMsg == IF tpc = "sluggish" THEN Tok("msec since last stats; sluggish?")
                                ELSE Tok("stats")

\* ed.log(..) from the timer thread; after the sluggish warning the
\* statistics line follows (or chain_update fails and the loop continues)
TimerLog ==
    /\ Alive
    /\ tpc \in {"sluggish", "stats"}
    /\ Log("timer", TimerMsg)
    /\ IF LogReturns
         THEN tpc' \in IF tpc = "sluggish" THEN {"stats", "sleep"}
                                           ELSE {"sleep"}
         ELSE UNCHANGED tpc
    /\ UNCHANGED <<state, input, eof, interrupted, ctrlc, buffer, sigterm,
                   olock, retries, restores, ilock, lineVars, gateVars,
                   mainVars, readerVars, clientVars, ctrlcHist, fed,
                   rendered>>

\* ------------------------------------------- a second caller of Term::line
ClientCall ==
    /\ Alive
    /\ cpc = "idle"
    /\ Event
    /\ cpc' = "line"
    /\ lpc' = [lpc EXCEPT !["client"] = "call"]
    /\ emitted' = <<>>
    /\ UNCHANGED <<termVars, sigterm, olock, retries, restores, ilock,
                   waiters, lres, gateVars, mainVars, timerVars, rpc, pending,
                   lgpc, wq, histVars>>

ClientReturn ==
    /\ Alive
    /\ cpc = "line"
    /\ lpc["client"] = "ret"
    /\ cpc' = "idle"
    /\ lpc' = [lpc EXCEPT !["client"] = "idle"]
    /\ hit' = hit \ {"client"}
    /\ emitted' = <<>>
    /\ UNCHANGED <<termVars, sigterm, olock, retries, restores, ilock,
                   waiters, lres, gateVars, mainVars, timerVars, readerVars,
                   lgpc, wq, raised, taken, ends, ctrlcBusy, editHist>>

\* ---------------------------------------------- one more caller of Term::log
LoggerCall ==
    /\ Alive
    /\ lgpc = "idle"
    /\ Event
    /\ lgpc' = "log"
    /\ emitted' = <<>>
    /\ UNCHANGED <<termVars, sigterm, olock, retries, restores, ilock,
                   waiters, lineVars, gateVars, mainVars, timerVars, rpc,
                   pending, cpc, wq, histVars>>

LoggerLog ==
    /\ Alive
    /\ lgpc = "log"
    /\ Log("logger", Tok("note"))
    /\ lgpc' = IF LogReturns THEN "idle" ELSE lgpc
    /\ UNCHANGED <<state, input, eof, interrupted, ctrlc, buffer, sigterm,
                   olock, retries, restores, ilock, lineVars, gateVars,
                   mainVars, timerVars, readerVars, cpc, wq, ctrlcHist, fed,
                   rendered>>

\* ------------------------------------------------- Term, emit() by emit()
\* The operations that call emit() more than once, taken one emit() at a
\* time: log() outside an edit (the message, then the terminator), and in
\* line() the rendering of a pending log, ^U and the unknown-byte report.

\* log that writes without holding the Inner lock
LogStartUnlocked(t, msg) ==
    /\ ilock = "none"
    /\ t \notin waiters
    /\ wq[t] = <<>>
    /\ CASE state = "Rest" ->
              /\ emitted' = <<msg>>
              /\ wq' = [wq EXCEPT ![t] = <<CRLF>>]
              /\ UNCHANGED <<ilock, log, waiters>>
         [] state = "CleanedUp" ->
              /\ emitted' = <<msg>>
              /\ wq' = [wq EXCEPT ![t] = <<Tok("\\n")>>]
              /\ UNCHANGED <<ilock, log, waiters>>
         [] state = "Editing" /\ log = <<>> ->
              /\ log' = <<msg>>
              /\ waiters' = {}
              /\ emitted' = <<>>
              /\ UNCHANGED <<ilock, wq>>
         [] state = "Editing" /\ log # <<>> ->
              /\ waiters' = waiters \cup {t}
              /\ emitted' = <<>>
              /\ UNCHANGED <<ilock, log, wq>>
    /\ deposited' = IF state = "Editing" /\ log = <<>>
                      THEN Append(deposited, msg) ELSE deposited
    /\ blockedAt' = [blockedAt EXCEPT
                       ![t] = IF LogReturns THEN 0
                              ELSE IF @ = 0 THEN Len(deposited) ELSE @]

\* log(msg) from taking the lock to its first emit(), to the deposit or to
\* the condvar wait; the lock stays held when there is more to write
LogStart(t, msg) ==
    /\ ilock = "none"
    /\ t \notin waiters
    /\ wq[t] = <<>>
    /\ CASE state = "Rest" ->
              /\ ilock' = t
              /\ emitted' = <<msg>>
              /\ wq' = [wq EXCEPT ![t] = <<CRLF>>]
              /\ UNCHANGED <<log, waiters>>
         [] state = "CleanedUp" ->
              /\ ilock' = t
              /\ emitted' = <<msg>>
              /\ wq' = [wq EXCEPT ![t] = <<Tok("\\n")>>]
              /\ UNCHANGED <<log, waiters>>
         [] state = "Editing" /\ log = <<>> ->
              /\ log' = <<msg>>
              /\ waiters' = {}
              /\ emitted' = <<>>
              /\ UNCHANGED <<ilock, wq>>
         [] state = "Editing" /\ log # <<>> ->
              /\ waiters' = waiters \cup {t}
              /\ emitted' = <<>>
              /\ UNCHANGED <<ilock, log, wq>>
    /\ deposited' = IF state = "Editing" /\ log = <<>>
                      THEN Append(deposited, msg) ELSE deposited
    /\ blockedAt' = [blockedAt EXCEPT
                       ![t] = IF LogReturns THEN 0
                              ELSE IF @ = 0 THEN Len(deposited) ELSE @]

\* Whether a log() call that takes the lock now returns from LogStart
LogDeposits == state = "Editing" /\ log = <<>>

\* the terminator is written and log() returns, releasing the lock
LogEnd(t) ==
    /\ wq[t] # <<>>
    /\ emitted' = <<Head(wq[t])>>
    /\ wq' = [wq EXCEPT ![t] = Tail(@)]
    /\ ilock' = "none"

MainLogStart ==
    /\ mpc = "log"
    /\ LogStart("main", Head(mlog))
    /\ IF LogDeposits
         THEN /\ mlog' = Tail(mlog)
              /\ mlogs' = mlogs + 1
              /\ mpc' = IF Tail(mlog) = <<>> THEN mnext ELSE "log"
         ELSE UNCHANGED <<mlog, mlogs, mpc>>
    /\ UNCHANGED <<state, input, eof, interrupted, ctrlc, buffer, sigterm,
                   olock, retries, restores, lineVars, gateVars, mnext, sz, c,
                   allocs, verb, timerVars, readerVars, cpc, lgpc, ctrlcHist,
                   fed, rendered>>

MainLogEnd ==
    /\ mpc = "log"
    /\ LogEnd("main")
    /\ mlog' = Tail(mlog)
    /\ mlogs' = mlogs + 1
    /\ mpc' = IF Tail(mlog) = <<>> THEN mnext ELSE "log"
    /\ UNCHANGED <<termVars, sigterm, olock, retries, restores, waiters,
                   lineVars, gateVars, mnext, sz, c, allocs, verb, timerVars,
                   readerVars, cpc, lgpc, histVars>>

TimerLogStart ==
    /\ Alive
    /\ tpc \in {"sluggish", "stats"}
    /\ LogStart("timer", TimerMsg)
    /\ IF LogDeposits
         THEN tpc' \in IF tpc = "sluggish" THEN {"stats", "sleep"}
                                           ELSE {"sleep"}
         ELSE UNCHANGED tpc
    /\ UNCHANGED <<state, input, eof, interrupted, ctrlc, buffer, sigterm,
                   olock, retries, restores, lineVars, gateVars, mainVars,
                   readerVars, cpc, lgpc, ctrlcHist, fed, rendered>>

TimerLogEnd ==
    /\ Alive
    /\ tpc \in {"sluggish", "stats"}
    /\ LogEnd("timer")
    /\ tpc' \in IF tpc = "sluggish" THEN {"stats", "sleep"} ELSE {"sleep"}
    /\ UNCHANGED <<termVars, sigterm, olock, retries, restores, waiters,
                   lineVars, gateVars, mainVars, readerVars, cpc, lgpc,
                   histVars>>

LoggerLogStart ==
    /\ Alive
    /\ lgpc = "log"
    /\ LogStart("logger", Tok("note"))
    /\ lgpc' = IF LogDeposits THEN "idle" ELSE lgpc
    /\ UNCHANGED <<state, input, eof, interrupted, ctrlc, buffer, sigterm,
                   olock, retries, restores, lineVars, gateVars, mainVars,
                   timerVars, readerVars, cpc, ctrlcHist, fed, rendered>>

LoggerLogEnd ==
    /\ Alive
    /\ lgpc = "log"
    /\ LogEnd("logger")
    /\ lgpc' = "idle"
    /\ UNCHANGED <<termVars, sigterm, olock, retries, restores, waiters,
                   lineVars, gateVars, mainVars, timerVars, readerVars, cpc,
                   histVars>>

\* 5. a pending log: take it, notify, and the first emit() of
\* log_while_editing
LineLogStart(t) ==
    /\ AtLoop(t)
    /\ ~sigterm /\ ~ctrlc /\ ~interrupted /\ ~eof
    /\ log # <<>>
    /\ log' = <<>>
    /\ waiters' = {}
    /\ rendered' = Append(rendered, Head(log))
    /\ emitted' = <<Head(log_while_editing(buffer, Head(log)))>>
    /\ wq' = [wq EXCEPT ![t] = Tail(log_while_editing(buffer, Head(log)))]
    /\ lpc' = [lpc EXCEPT ![t] = "emit"]
    /\ UNCHANGED <<state, input, eof, interrupted, ctrlc, buffer, sigterm,
                   olock, retries, restores, ilock, lres, gateVars, mainVars,
                   timerVars, readerVars, cpc, lgpc, ctrlcHist, fed,
                   deposited, blockedAt>>

\* Bytes line() answers with more than one emit(): ^U and the unmapped ones
ManyEmits(b) ==
    ~(IsAsciiGraphic(b) \/ b = SP \/ b \in {CtrlC, CtrlD, CR, DEL})

\* 6b for a byte answered with at most one emit()
LineByteOne(t) ==
    /\ input # <<>>
    /\ ~ManyEmits(Head(input))
    /\ LineByte(t)

\* 6b for ^U and unmapped bytes: the byte popped, the buffer updated, and
\* the first emit()
LineByteStart(t) ==
    /\ AtLoop(t)
    /\ Quiet
    /\ input # <<>>
    /\ ManyEmits(Head(input))
    /\ input' = Tail(input)
    /\ fed' = Append(fed, Head(input))
    /\ waiters' = {}
    /\ LET b == Head(input)
           e == IF b = CtrlU THEN EditKill(buffer)
                             ELSE EditUnknown(buffer, b)
       IN /\ buffer' = e.buf
          /\ emitted' = <<Head(e.out)>>
          /\ wq' = [wq EXCEPT ![t] = Tail(e.out)]
    /\ lpc' = [lpc EXCEPT ![t] = "emit"]
    /\ UNCHANGED <<state, eof, interrupted, ctrlc, log, sigterm, olock,
                   retries, restores, ilock, lres, gateVars, mainVars,
                   timerVars, readerVars, cpc, lgpc, ctrlcHist, deposited,
                   rendered, blockedAt>>

\* the next emit() of the run; after the last one line() is back at the
\* top of its loop, the lock still held
LineEmit(t) ==
    /\ Alive
    /\ lpc[t] = "emit"
    /\ ilock = t
    /\ emitted' = <<Head(wq[t])>>
    /\ wq' = [wq EXCEPT ![t] = Tail(@)]
    /\ lpc' = [lpc EXCEPT ![t] = IF Tail(wq[t]) = <<>> THEN "loop"
                                                       ELSE "emit"]
    /\ UNCHANGED <<termVars, sigterm, olock, retries, restores, ilock,
                   waiters, lres, gateVars, mainVars, timerVars, readerVars,
                   cpc, lgpc, histVars>>

\* ---------------------------------------------------------- specifications
Line(t) ==
    \/ LineEnter(t)
    \/ LineSigterm(t)
    \/ LineCtrlc(t)
    \/ LineInterrupted(t)
    \/ LineEof(t)
    \/ LineLog(t)
    \/ LineWait(t)
    \/ LineWake(t)
    \/ LineByte(t)
    \/ LineCleanup(t)

Next ==
    \/ Type
    \/ Sigterm
    \/ ReadByte
    \/ ReadEof
    \/ ReadInterrupted
    \/ ReadError
    \/ Line("editor")
    \/ EditorGate
    \/ EditorReturn
    \/ EditorSend
    \/ MainRecv
    \/ MainGrowBusy
    \/ MainCheckpoint
    \/ MainFinish
    \/ MainLog
    \/ MainUnbusy
    \/ MainCleanup
    \/ TimerTick
    \/ TimerLog

\* The program: its four threads, the keyboard and the signal.
Spec == Init /\ [][Next]_vars

NextApi ==
    \/ Next
    \/ Line("client")
    \/ ClientCall
    \/ ClientReturn

\* The program plus a second thread calling Term::line.
SpecApi == Init /\ [][NextApi]_vars

NextLog ==
    \/ Next
    \/ LoggerCall
    \/ LoggerLog

\* The program plus one more thread calling Term::log.
SpecLog == Init /\ [][NextLog]_vars

LineEmits(t) ==
    \/ LineEnter(t)
    \/ LineSigterm(t)
    \/ LineCtrlc(t)
    \/ LineInterrupted(t)
    \/ LineEof(t)
    \/ LineLogStart(t)
    \/ LineWait(t)
    \/ LineWake(t)
    \/ LineByteOne(t)
    \/ LineByteStart(t)
    \/ LineEmit(t)
    \/ LineCleanup(t)

NextEmit ==
    \/ Type
    \/ Sigterm
    \/ ReadByte
    \/ ReadEof
    \/ ReadInterrupted
    \/ ReadError
    \/ LineEmits("editor")
    \/ EditorGate
    \/ EditorReturn
    \/ EditorSend
    \/ MainRecv
    \/ MainGrowBusy
    \/ MainCheckpoint
    \/ MainFinish
    \/ MainLogStart
    \/ MainLogEnd
    \/ MainUnbusy
    \/ MainCleanup
    \/ TimerTick
    \/ TimerLogStart
    \/ TimerLogEnd
    \/ LoggerCall
    \/ LoggerLogStart
    \/ LoggerLogEnd

\* The program and one more log() caller, with every emit() a step of its
\* own.
SpecEmit == Init /\ [][NextEmit]_vars

\* line() as it runs when only the keyboard acts on it
LineKeys(t) ==
    \/ LineEnter(t)
    \/ LineCtrlc(t)
    \/ LineWait(t)
    \/ LineWake(t)
    \/ LineByte(t)
    \/ LineCleanup(t)

NextEdit ==
    \/ TypeKeys
    \/ ReadByte
    \/ ClientCall
    \/ LineKeys("client")
    \/ ClientReturn

\* Term on its own: the keyboard, the stdin thread and one thread that
\* calls line() again and again.
SpecEdit == Init /\ [][NextEdit]_vars

\* --------------------------------------------------- Term, lock by lock
\* Keys for exercising the locks: "x" with its CR (a line for the
\* dispatcher to answer), ^C (the edit ends in cleanup()) and ^U (a redraw
\* of several emit() calls).
LockChunks == { <<120, CR>>, <<CtrlC>>, <<CtrlU>> }

TypeLock ==
    /\ Alive
    /\ Event
    /\ pending = <<>>
    /\ \E ch \in LockChunks : pending' = ch
    /\ emitted' = <<>>
    /\ UNCHANGED <<termVars, sigterm, olock, retries, restores, ilock,
                   waiters, lineVars, gateVars, mainVars, timerVars, rpc,
                   clientVars, histVars>>

\* The same operations with every acquisition of the output mutex a step of
\* its own: emit() locks self.output, writes and unlocks; cleanup() locks
\* the Inner mutex, then self.output, and holds both to its end. wq[t] is
\* what thread t has still to emit() while it holds the Inner lock.

\* emit(): self.output.lock()
OutLock(t) ==
    /\ Alive
    /\ wq[t] # <<>>
    /\ olock = "none"
    /\ olock' = t
    /\ emitted' = <<>>
    /\ UNCHANGED <<termVars, sigterm, restores, ilock, waiters, lineVars,
                   gateVars, mainVars, timerVars, readerVars, clientVars,
                   histVars, retries>>

\* emit(): write_all, flush, and the guard dropped
OutWrite(t) ==
    /\ olock = t
    /\ wq[t] # <<>>
    /\ emitted' = <<Head(wq[t])>>
    /\ wq' = [wq EXCEPT ![t] = Tail(@)]
    /\ olock' = "none"

\* log(msg) from taking the Inner lock to the match on the state: at rest
\* two emit() calls lie ahead, with the lock kept; after cleanup println!
\* (which does not use self.output); during an edit the deposit or the wait
LockLog(t, msg) ==
    /\ ilock = "none"
    /\ t \notin waiters
    /\ wq[t] = <<>>
    /\ CASE state = "Rest" ->
              /\ ilock' = t
              /\ wq' = [wq EXCEPT ![t] = <<msg, CRLF>>]
              /\ emitted' = <<>>
              /\ UNCHANGED <<log, waiters>>
         [] state = "CleanedUp" ->
              /\ emitted' = <<msg, Tok("\\n")>>
              /\ UNCHANGED <<ilock, wq, log, waiters>>
         [] state = "Editing" /\ log = <<>> ->
              /\ log' = <<msg>>
              /\ waiters' = {}
              /\ emitted' = <<>>
              /\ UNCHANGED <<ilock, wq>>
         [] state = "Editing" /\ log # <<>> ->
              /\ waiters' = waiters \cup {t}
              /\ emitted' = <<>>
              /\ UNCHANGED <<ilock, log, wq>>
    /\ deposited' = IF state = "Editing" /\ log = <<>>
                      THEN Append(deposited, msg) ELSE deposited
    /\ blockedAt' = [blockedAt EXCEPT
                       ![t] = IF LogReturns THEN 0
                              ELSE IF @ = 0 THEN Len(deposited) ELSE @]

\* Whether a log() call that takes the lock now returns from LockLog
LockLogDone == state = "CleanedUp" \/ (state = "Editing" /\ log = <<>>)

MainLockLog ==
    /\ mpc = "log"
    /\ LockLog("main", Head(mlog))
    /\ IF LockLogDone
         THEN /\ mlog' = Tail(mlog)
              /\ mlogs' = mlogs + 1
              /\ mpc' = IF Tail(mlog) = <<>> THEN mnext ELSE "log"
         ELSE UNCHANGED <<mlog, mlogs, mpc>>
    /\ UNCHANGED <<state, input, eof, interrupted, ctrlc, buffer, sigterm,
                   olock, retries, restores, lineVars, gateVars, mnext, sz,
                   c, allocs, verb, timerVars, readerVars, cpc, lgpc,
                   ctrlcHist, fed, rendered>>

\* an emit() of the dispatcher's log() ends; after the second log() returns
MainOutWrite ==
    /\ mpc = "log"
    /\ OutWrite("main")
    /\ IF Tail(wq["main"]) = <<>>
         THEN /\ ilock' = "none"
              /\ mlog' = Tail(mlog)
              /\ mlogs' = mlogs + 1
              /\ mpc' = IF Tail(mlog) = <<>> THEN mnext ELSE "log"
         ELSE UNCHANGED <<ilock, mlog, mlogs, mpc>>
    /\ UNCHANGED <<termVars, sigterm, retries, restores, waiters, lineVars,
                   gateVars, mnext, sz, c, allocs, verb, timerVars,
                   readerVars, cpc, lgpc, histVars>>

TimerLockLog ==
    /\ Alive
    /\ tpc \in {"sluggish", "stats"}
    /\ LockLog("timer", TimerMsg)
    /\ IF LockLogDone
         THEN tpc' \in IF tpc = "sluggish" THEN {"stats", "sleep"}
                                           ELSE {"sleep"}
         ELSE UNCHANGED tpc
    /\ UNCHANGED <<state, input, eof, interrupted, ctrlc, buffer, sigterm,
                   olock, retries, restores, lineVars, gateVars, mainVars,
                   readerVars, cpc, lgpc, ctrlcHist, fed, rendered>>

TimerOutWrite ==
    /\ Alive
    /\ tpc \in {"sluggish", "stats"}
    /\ OutWrite("timer")
    /\ IF Tail(wq["timer"]) = <<>>
         THEN /\ ilock' = "none"
              /\ tpc' \in IF tpc = "sluggish" THEN {"stats", "sleep"}
                                                ELSE {"sleep"}
         ELSE UNCHANGED <<ilock, tpc>>
    /\ UNCHANGED <<termVars, sigterm, retries, restores, waiters, lineVars,
                   gateVars, mainVars, readerVars, cpc, lgpc, histVars>>

LoggerLockLog ==
    /\ Alive
    /\ lgpc = "log"
    /\ LockLog("logger", Tok("note"))
    /\ lgpc' = IF LockLogDone THEN "idle" ELSE lgpc
    /\ UNCHANGED <<state, input, eof, interrupted, ctrlc, buffer, sigterm,
                   olock, retries, restores, lineVars, gateVars, mainVars,
                   timerVars, readerVars, cpc, ctrlcHist, fed, rendered>>

LoggerOutWrite ==
    /\ Alive
    /\ lgpc = "log"
    /\ OutWrite("logger")
    /\ IF Tail(wq["logger"]) = <<>>
         THEN ilock' = "none" /\ lgpc' = "idle"
         ELSE UNCHANGED <<ilock, lgpc>>
    /\ UNCHANGED <<termVars, sigterm, retries, restores, waiters, lineVars,
                   gateVars, mainVars, timerVars, readerVars, cpc,
                   histVars>>

\* line()'s entry: the prompt is the first thing to emit()
LockLineEnter(t) ==
    /\ Alive
    /\ lpc[t] = "call"
    /\ ilock = "none"
    /\ CASE state = "Rest" ->
              /\ buffer' = <<>>
              /\ state' = "Editing"
              /\ waiters' = {}
              /\ wq' = [wq EXCEPT ![t] = <<Tok(prompt)>>]
              /\ ilock' = t
              /\ lpc' = [lpc EXCEPT ![t] = "emit"]
              /\ fed' = <<>>
              /\ UNCHANGED lres
         [] state = "Editing" ->
              /\ lres' = [lres EXCEPT
                            ![t] = ResErr("another thread is already editing")]
              /\ lpc' = [lpc EXCEPT ![t] = "ret"]
              /\ UNCHANGED <<buffer, state, waiters, ilock, fed, wq>>
         [] state = "CleanedUp" ->
              /\ lres' = [lres EXCEPT ![t] = ResErr("cleaned up already")]
              /\ lpc' = [lpc EXCEPT ![t] = "ret"]
              /\ UNCHANGED <<buffer, state, waiters, ilock, fed, wq>>
    /\ emitted' = <<>>
    /\ UNCHANGED <<input, eof, interrupted, ctrlc, log, sigterm, olock,
                   retries, restores, gateVars, mainVars, timerVars,
                   readerVars, cpc, lgpc, ctrlcHist, deposited, rendered,
                   blockedAt>>

\* 5. a pending log: take it, notify; log_while_editing is what to emit()
LockLineLog(t) ==
    /\ AtLoop(t)
    /\ ~sigterm /\ ~ctrlc /\ ~interrupted /\ ~eof
    /\ log # <<>>
    /\ log' = <<>>
    /\ waiters' = {}
    /\ rendered' = Append(rendered, Head(log))
    /\ emitted' = <<>>
    /\ wq' = [wq EXCEPT ![t] = log_while_editing(buffer, Head(log))]
    /\ lpc' = [lpc EXCEPT ![t] = "emit"]
    /\ UNCHANGED <<state, input, eof, interrupted, ctrlc, buffer, sigterm,
                   olock, retries, restores, ilock, lres, gateVars, mainVars,
                   timerVars, readerVars, cpc, lgpc, ctrlcHist, fed,
                   deposited, blockedAt>>

\* 6b. pop one byte and act on it under the Inner lock; what it makes
\* line() write is left to emit()
LockLineByte(t) ==
    /\ AtLoop(t)
    /\ Quiet
    /\ input # <<>>
    /\ input' = Tail(input)
    /\ fed' = Append(fed, Head(input))
    /\ waiters' = {}
    /\ emitted' = <<>>
    /\ LET b == Head(input)
           e == CASE IsAsciiGraphic(b) \/ b = SP -> EditGraphic(buffer, b)
                  [] b = DEL -> EditBackspace(buffer)
                  [] b = CtrlU -> EditKill(buffer)
                  [] b = CR -> [buf |-> EditSubmit(buffer).buf,
                                out |-> EditSubmit(buffer).out]
                  [] OTHER -> EditUnknown(buffer, b)
       IN CASE b = CtrlC \/ b = CtrlD ->
                 /\ ToCleanup(t)
                 /\ UNCHANGED <<state, buffer, lres, wq>>
            [] b = CR ->
                 /\ state' = "Rest"
                 /\ buffer' = e.buf
                 /\ lres' = [lres EXCEPT ![t] = EditSubmit(buffer).res]
                 /\ wq' = [wq EXCEPT ![t] = e.out]
                 /\ lpc' = [lpc EXCEPT ![t] = "emit"]
                 /\ UNCHANGED ilock
            [] OTHER ->
                 /\ buffer' = e.buf
                 /\ wq' = [wq EXCEPT ![t] = e.out]
                 /\ lpc' = [lpc EXCEPT ![t] = IF e.out = <<>> THEN "loop"
                                                               ELSE "emit"]
                 /\ UNCHANGED <<state, ilock, lres>>
    /\ UNCHANGED <<eof, interrupted, ctrlc, log, sigterm, olock, retries,
                   restores, gateVars, mainVars, timerVars, readerVars, cpc,
                   lgpc, ctrlcHist, deposited, rendered, blockedAt>>

\* an emit() of line() ends; after the last one line() is back at the top
\* of its loop or, after a CR, returns the line
LockLineWrite(t) ==
    /\ Alive
    /\ lpc[t] = "emit"
    /\ OutWrite(t)
    /\ IF Tail(wq[t]) # <<>>
         THEN UNCHANGED <<lpc, ilock>>
         ELSE IF state = "Rest"
                THEN lpc' = [lpc EXCEPT ![t] = "ret"] /\ ilock' = "none"
                ELSE lpc' = [lpc EXCEPT ![t] = "loop"] /\ UNCHANGED ilock
    /\ UNCHANGED <<termVars, sigterm, retries, restores, waiters, lres,
                   gateVars, mainVars, timerVars, readerVars, cpc, lgpc,
                   histVars>>

\* cleanup(): self.output.lock(), the Inner lock held
LockCleanupOut(t) ==
    /\ ilock = t
    /\ olock = "none"
    /\ olock' = t
    /\ emitted' = <<>>
    /\ UNCHANGED <<state, restores, waiters, ilock>>

\* cleanup that does not notify
LockCleanupQuiet(t) ==
    /\ olock = t
    /\ emitted' = <<CRLF>>
    /\ restores' = restores + 1
    /\ state' = "CleanedUp"
    /\ olock' = "none"
    /\ ilock' = "none"
    /\ UNCHANGED waiters

\* cleanup(): the line break, the termios restored, CleanedUp, notify_all,
\* and both guards dropped
LockCleanupDone(t) ==
    /\ olock = t
    /\ emitted' = <<CRLF>>
    /\ restores' = restores + 1
    /\ state' = "CleanedUp"
    /\ waiters' = {}
    /\ olock' = "none"
    /\ ilock' = "none"

\* self.cleanup() from line(): the Inner lock, and the return at once if
\* the state is CleanedUp already
LineCleanupLock(t) ==
    /\ Alive
    /\ lpc[t] = "cleanup"
    /\ ilock = "none"
    /\ IF state = "CleanedUp"
         THEN /\ lres' = [lres EXCEPT ![t] = ResEnd]
              /\ lpc' = [lpc EXCEPT ![t] = "ret"]
              /\ ends' = ends + 1
              /\ UNCHANGED ilock
         ELSE /\ ilock' = t
              /\ lpc' = [lpc EXCEPT ![t] = "cleanup_in"]
              /\ UNCHANGED <<lres, ends>>
    /\ emitted' = <<>>
    /\ UNCHANGED <<termVars, sigterm, olock, retries, restores, waiters,
                   gateVars, mainVars, timerVars, readerVars, clientVars,
                   hit, raised, taken, ctrlcBusy, editHist>>

LineCleanupOut(t) ==
    /\ Alive
    /\ lpc[t] = "cleanup_in"
    /\ LockCleanupOut(t)
    /\ lpc' = [lpc EXCEPT ![t] = "cleanup_out"]
    /\ UNCHANGED <<input, eof, interrupted, ctrlc, buffer, log, sigterm,
                   retries, lres, gateVars, mainVars, timerVars, readerVars,
                   clientVars, histVars>>

\* cleanup() ends and line() returns Ok(Line::End)
LineCleanupDone(t) ==
    /\ Alive
    /\ lpc[t] = "cleanup_out"
    /\ LockCleanupDone(t)
    /\ lres' = [lres EXCEPT ![t] = ResEnd]
    /\ lpc' = [lpc EXCEPT ![t] = "ret"]
    /\ ends' = ends + 1
    /\ UNCHANGED <<input, eof, interrupted, ctrlc, buffer, log, sigterm,
                   retries, gateVars, mainVars, timerVars, readerVars,
                   clientVars, hit, raised, taken, ctrlcBusy, editHist>>

\* ed.cleanup() of the dispatcher
MainCleanupLock ==
    /\ mpc = "cleanup"
    /\ ilock = "none"
    /\ IF state = "CleanedUp"
         THEN mpc' = "exit" /\ UNCHANGED ilock
         ELSE mpc' = "cleanup_in" /\ ilock' = "main"
    /\ emitted' = <<>>
    /\ UNCHANGED <<termVars, sigterm, olock, retries, restores, waiters,
                   lineVars, gateVars, mlog, mnext, sz, c, allocs, verb,
                   mlogs, timerVars, readerVars, clientVars, histVars>>

MainCleanupOut ==
    /\ mpc = "cleanup_in"
    /\ LockCleanupOut("main")
    /\ mpc' = "cleanup_out"
    /\ UNCHANGED <<input, eof, interrupted, ctrlc, buffer, log, sigterm,
                   retries, lineVars, gateVars, mlog, mnext, sz, c, allocs,
                   verb, mlogs, timerVars, readerVars, clientVars,
                   histVars>>

\* cleanup() ends and main returns: the process ends
MainCleanupDone ==
    /\ mpc = "cleanup_out"
    /\ LockCleanupDone("main")
    /\ mpc' = "exit"
    /\ UNCHANGED <<input, eof, interrupted, ctrlc, buffer, log, sigterm,
                   retries, lineVars, gateVars, mlog, mnext, sz, c, allocs,
                   verb, mlogs, timerVars, readerVars, clientVars,
                   histVars>>

LockLine(t) ==
    \/ LockLineEnter(t)
    \/ LineSigterm(t)
    \/ LineCtrlc(t)
    \/ LineEof(t)
    \/ LockLineLog(t)
    \/ LineWait(t)
    \/ LineWake(t)
    \/ LockLineByte(t)
    \/ OutLock(t)
    \/ LockLineWrite(t)
    \/ LineCleanupLock(t)
    \/ LineCleanupOut(t)
    \/ LineCleanupDone(t)

\* The threads' steps, lock by lock
EditorLockThread ==
    LockLine("editor") \/ EditorGate \/ EditorReturn \/ EditorSend

MainLockThread ==
    \/ MainRecv
    \/ MainLockLog
    \/ OutLock("main")
    \/ MainOutWrite
    \/ MainUnbusy
    \/ MainCleanupLock
    \/ MainCleanupOut
    \/ MainCleanupDone

TimerLockThread == TimerLockLog \/ OutLock("timer") \/ TimerOutWrite

ClientLockThread == LockLine("client") \/ ClientReturn

LoggerLockThread == LoggerLockLog \/ OutLock("logger") \/ LoggerOutWrite

NextLock ==
    \/ TypeLock
    \/ Sigterm
    \/ ReadByte
    \/ ReadEof
    \/ EditorLockThread
    \/ MainLockThread
    \/ TimerTick
    \/ TimerLockThread
    \/ LoggerCall
    \/ LoggerLockThread
    \/ ClientCall
    \/ ClientLockThread

\* Scheduling, as in Fairness: the editor thread runs whenever it can; the
\* threads that contend for the Inner lock get it if they keep asking.
FairnessLock ==
    /\ WF_vars(EditorLockThread)
    /\ SF_vars(MainLockThread)
    /\ SF_vars(TimerLockThread)
    /\ SF_vars(LoggerLockThread)
    /\ SF_vars(ClientLockThread)
    /\ SF_vars(ReadByte)

\* The program, one more log() caller and a second line() caller, lock by
\* lock, under fair scheduling.
SpecLock == Init /\ [][NextLock]_vars /\ FairnessLock

\* The steps of the editor thread and of the dispatcher
EditorThread == Line("editor") \/ EditorGate \/ EditorReturn \/ EditorSend

MainThread ==
    \/ MainRecv
    \/ MainGrowBusy
    \/ MainCheckpoint
    \/ MainFinish
    \/ MainLog
    \/ MainUnbusy
    \/ MainCleanup

\* Scheduling: a thread that can run does run. The editor thread's steps
\* never wait for another thread's lock for long (line() waits on the
\* condvar with a timeout); the dispatcher, the timer thread and the stdin
\* thread contend for the Inner lock, which line() frees at every wait, so
\* they get it if they ask again and again.
Fairness ==
    /\ WF_vars(EditorThread)
    /\ SF_vars(MainThread)
    /\ SF_vars(TimerLog)
    /\ SF_vars(ReadByte)

\* The program under fair scheduling.
SpecLive == Init /\ [][Next]_vars /\ Fairness

\* ------------------------------------------------------------------ claims

\* C1: however many cleanup() calls are made (by line()'s exit paths and by
\* the dispatcher's shutdown), the original terminal attributes are
\* restored exactly once: once the state is CleanedUp there has been one
\* restoration, and before that none.
C1_RestoredOnce == restores = (IF state = "CleanedUp" THEN 1 ELSE 0)

\* line() has ended the session and the dispatcher's own cleanup() has run
\* after it: two calls, one restoration.
C1_TwoCleanups == mpc = "exit" /\ ends = 1 /\ restores = 1

\* C2: the state changes only by Rest -> Editing (a line() call starts),
\* Editing -> Rest (a line is submitted), and Rest or Editing -> CleanedUp
\* (cleanup() restores the terminal); nothing leaves CleanedUp.
C2_Transitions ==
    [][state' # state =>
         \/ /\ state = "Rest" /\ state' = "Editing"
            /\ \E t \in LineCallers : lpc[t] = "call" /\ lpc'[t] = "loop"
         \/ /\ state = "Editing" /\ state' = "Rest"
            /\ \E t \in LineCallers :
                 lpc[t] = "loop" /\ lpc'[t] = "ret" /\ lres'[t].k = "Line"
         \/ /\ state \in {"Rest", "Editing"} /\ state' = "CleanedUp"
            /\ restores' = restores + 1]_vars

\* A line() call was made after the terminal was cleaned up, and the state
\* stayed CleanedUp.
C2_CalledAfterCleanup ==
    /\ state = "CleanedUp"
    /\ \E t \in LineCallers : lres[t] = ResErr("cleaned up already")

\* C3: at most one caller is inside an edit, and a line() call that finds
\* the state Editing returns the "already editing" error, leaving the
\* state, the buffer, the input queue and the pending log as they were and
\* emitting nothing.
C3_SecondCallerRejected ==
    /\ [](Cardinality({t \in LineCallers : InEdit(t)}) <= 1)
    /\ [][\A t \in LineCallers :
            (LineEnter(t) /\ state = "Editing") =>
               /\ lpc'[t] = "ret"
               /\ lres'[t] = ResErr("another thread is already editing")
               /\ emitted' = <<>>
               /\ UNCHANGED <<state, buffer, input, log>>]_vars

\* A second caller was turned away while the first was editing a
\* non-empty buffer.
C3_TurnedAway ==
    /\ state = "Editing"
    /\ buffer # <<>>
    /\ \E t \in LineCallers :
         lres[t] = ResErr("another thread is already editing")

\* C4: while a dispatched command is executing no line() call is in
\* progress and the state is not Editing; BusyFlag is true from the moment a
\* line is handed over until the dispatcher releases it; and the editor
\* thread is inside line() only with BusyFlag false.
C4_BusyGating ==
    /\ Executing =>
         /\ busy
         /\ edpc = "gate"
         /\ lpc["editor"] = "idle"
         /\ state # "Editing"
    /\ chan # <<>> => busy
    /\ edpc = "line" => ~busy

\* A grow is under way, past its first checkpoint, with the gate closed.
C4_GrowRunning == mpc = "grow" /\ c > 0 /\ busy /\ state = "Rest"

\* C5: after every submitted line the dispatcher marks the gate idle again:
\* when it is back in recv with nothing queued and the editor thread is at
\* the gate, BusyFlag is false (otherwise neither thread can ever move).
C5_IdleAfterCommand ==
    (mpc = "recv" /\ chan = <<>> /\ edpc = "gate") => ~busy

Rejected == {"unknown", "grow_noarg", "grow_badarg"}

\* The message describes what is wrong with a line of verb v.
Describes(v, tok) ==
    CASE v = "unknown" -> tok.txt = " not understood" /\ tok.buf # <<>>
      [] v = "grow_noarg" -> tok = Tok("grow by how much?")
      [] v = "grow_badarg" -> tok = Tok("invalid digit found in string")
      [] OTHER -> FALSE

\* C6: a rejected line (unknown verb, grow without a size, grow with an
\* unparseable size) is answered with exactly one log() call, which
\* describes the problem; the dispatcher goes back to recv, and meanwhile
\* it neither cleans up the terminal nor leaves its loop.
C6_RejectedLogged ==
    /\ []((verb \in Rejected /\ mpc # "recv") =>
            /\ mpc \in {"log", "unbusy"}
            /\ mlogs <= 1
            /\ state = "Rest"
            /\ restores = 0)
    /\ [][/\ (verb \in Rejected /\ mpc # "recv" /\ mpc' = "recv") =>
               mlogs' = 1
          /\ (verb \in Rejected /\ MainLog) =>
               /\ mlogs' = 1
               /\ Describes(verb, emitted'[1])]_vars

\* An unparseable grow size has been answered and the dispatcher is back
\* in recv.
C6_BadSizeAnswered ==
    verb = "grow_badarg" /\ mpc = "recv" /\ mlogs = 1 /\ state = "Rest"

\* C7: a line() call during which the reader read a ^C can only return
\* the end-of-stream result, and the state is CleanedUp when it has returned.
C7_CtrlcEndsLine ==
    \A t \in hit :
       /\ InEdit(t) \/ lpc[t] = "ret"
       /\ lpc[t] = "ret" => (lres[t] = ResEnd /\ state = "CleanedUp")

\* ^C arrived while the editor was editing a non-empty buffer, and line()
\* has returned.
C7_CtrlcOverBuffer ==
    "editor" \in hit /\ lpc["editor"] = "ret" /\ buffer # <<>>

\* C8: the ctrlc flag is consumed at most once per ^C read: consumers never
\* outnumber the ^C bytes, a set flag stands for a ^C not yet consumed, a
\* consumer sees the flag set and leaves it clear (so take_ctrlc() is false
\* until the next ^C), and at most one end-of-stream result is produced.
C8_CtrlcConsumedOnce ==
    /\ [](taken <= raised /\ (ctrlc => taken < raised) /\ ends <= 1)
    /\ [][taken' # taken =>
            (taken' = taken + 1 /\ ctrlc /\ ~ctrlc')]_vars

\* take_ctrlc() returned true inside a grow, and the flag is clear.
C8_GrowInterrupted ==
    verb = "grow" /\ mpc = "log" /\ taken = 1 /\ raised = 1 /\ ~ctrlc

\* C9: a ^C read while a command was executing is never what makes a later
\* line() call clean up and return end-of-stream.
C9_NoStaleCtrlc ==
    [][\A t \in LineCallers :
         (lpc[t] = "loop" /\ lpc'[t] = "cleanup" /\ ctrlc /\ ~ctrlc')
            => ~ctrlcBusy]_vars

\* C10: a log(msg) call made in state Rest writes msg and the line
\* terminator, once, in the step that returns, and leaves the state, the
\* buffer, the input queue and the pending log unchanged.
C10_LogAtRest ==
    [][/\ (MainLog /\ state = "Rest") =>
            /\ emitted' = <<Head(mlog), CRLF>>
            /\ mlogs' = mlogs + 1
            /\ UNCHANGED <<state, buffer, input, log>>
       /\ (TimerLog /\ state = "Rest") =>
            /\ emitted' = <<TimerMsg, CRLF>>
            /\ tpc' # tpc
            /\ UNCHANGED <<state, buffer, input, log>>]_vars

\* The timer's statistics line has just been written in state Rest.
C10_StatsWritten == state = "Rest" /\ emitted = <<Tok("stats"), CRLF>>

\* C11: when line() renders a pending log message it emits, in this order,
\* move-to-column-0 with clear-line, the message, a line break, then
\* clear-line, the prompt and the edit buffer; the buffer is what it was
\* before, the edit goes on, and the log slot is empty afterwards.
C11_LogRendered ==
    [][\A t \in LineCallers :
         LineLog(t) =>
            /\ emitted' = <<Tok("\\r\\x1b[0K"), Head(log), Tok("\\r\\n"),
                            Tok("\\r\\x1b[0K"), Tok(prompt), Fmt("", buffer)>>
            /\ buffer' = buffer
            /\ state' = "Editing"
            /\ log' = <<>>]_vars

\* The statistics line has just been rendered above a prompt with text
\* typed after it.
C11_StatsOverText ==
    /\ state = "Editing"
    /\ buffer # <<>>
    /\ log = <<>>
    /\ rendered = <<Tok("stats")>>
    /\ Len(emitted) = 6
    /\ emitted[2] = Tok("stats")
    /\ emitted[6] = Fmt("", buffer)

C14_BackPressure ==
    /\ [](Len(log) <= 1)
    /\ [][/\ (log # <<>> /\ log' # <<>>) => log' = log
          /\ \A t \in LogCallers :
               (blockedAt[t] > 0 /\ blockedAt'[t] = 0) =>
                  Len(rendered) >= blockedAt[t]]_vars

\* C15: no accepted log message is lost: once the edit is over (the state
\* is no longer Editing) every message put into the slot has been rendered.
C15_NoLogLost == state # "Editing" => rendered = deposited

IsPrintable(b) == IsAsciiGraphic(b) \/ b = SP

Truncated(s) == SubSeq(s, 1, IF Len(s) < BufCap THEN Len(s) ELSE BufCap)

\* C16 as stated: while line() has been fed only printable bytes and
\* mapped controls (DEL, ^U), the buffer is the printable bytes fed, in
\* order, truncated at the cap.
C16_BufferIsPrintables ==
    (/\ state = "Editing"
     /\ \A i \in 1..Len(fed) : IsPrintable(fed[i]) \/ fed[i] \in {DEL, CtrlU})
       => buffer = Truncated(SelectSeq(fed, IsPrintable))

\* C16, amended: while line() has been fed printable bytes only (no CR,
\* ^C, ^D, DEL, ^U or other control byte), the buffer is the bytes fed, in
\* order, truncated at the cap.
C16_BufferIsTyped ==
    (/\ state = "Editing"
     /\ \A i \in 1..Len(fed) : IsPrintable(fed[i]))
       => buffer = Truncated(fed)

\* "x y" has been fed and is in the buffer.
C16_TextTyped ==
    state = "Editing" /\ fed = <<120, SP, 121>> /\ buffer = <<120, SP, 121>>

\* C17: DEL removes exactly the last character of a non-empty buffer and
\* emits the erase sequence; on an empty buffer it changes nothing and
\* writes nothing; the edit goes on either way.
C17_Backspace ==
    [][\A t \in LineCallers :
         (LineByte(t) /\ Head(input) = DEL) =>
            /\ state' = "Editing"
            /\ lpc'[t] = "loop"
            /\ IF buffer = <<>>
                 THEN buffer' = <<>> /\ emitted' = <<>>
                 ELSE /\ buffer' \o <<buffer[Len(buffer)]>> = buffer
                      /\ emitted' = <<Tok("\\x08 \\x08")>>]_vars

\* DEL was the first key of an edit: the buffer is empty and nothing was
\* written.
C17_BackspaceOnEmpty ==
    state = "Editing" /\ fed = <<DEL>> /\ buffer = <<>> /\ emitted = <<>>

\* C18: the buffer never holds more than 60 characters; a printable byte
\* that finds it full is dropped, neither appended nor echoed; the buffer
\* is empty when line() enters Editing and right after a line is submitted.
C18_BufferCapped ==
    /\ [](Len(buffer) <= 60)
    /\ [][\A t \in LineCallers :
            /\ (LineByte(t) /\ IsPrintable(Head(input)) /\ Len(buffer) = 60)
                  => (buffer' = buffer /\ emitted' = <<>>)
            /\ (LineEnter(t) /\ state' = "Editing") => buffer' = <<>>
            /\ (LineByte(t) /\ Head(input) = CR) => buffer' = <<>>]_vars

\* The 61st letter of the long line has just been dropped.
C18_SixtyFirstDropped ==
    /\ state = "Editing"
    /\ Len(fed) = 61
    /\ Len(buffer) = 60
    /\ emitted = <<>>
    /\ input = <<>>

\* C19: a CR popped by line() returns Line(b) with b the buffer at that
\* moment, clears the buffer, sets the state to Rest and emits a line
\* break; the bytes g r o w SP 5 CR give Line("grow 5").
C19_Submit ==
    /\ [][\A t \in LineCallers :
            (LineByte(t) /\ Head(input) = CR) =>
               /\ lres'[t] = [k |-> "Line", buf |-> buffer, msg |-> ""]
               /\ lpc'[t] = "ret"
               /\ buffer' = <<>>
               /\ state' = "Rest"
               /\ emitted' = <<Tok("\\r\\n")>>]_vars
    /\ [](\A t \in LineCallers :
            (lpc[t] = "ret" /\ fed = <<103, 114, 111, 119, 32, 53, 13>>) =>
               lres[t] = ResLine(<<103, 114, 111, 119, 32, 53>>))

\* "grow 5" has been submitted and handed back.
C19_GrowFive ==
    /\ lpc["client"] = "ret"
    /\ lres["client"] = ResLine(<<103, 114, 111, 119, 32, 53>>)
    /\ fed = <<103, 114, 111, 119, 32, 53, 13>>
    /\ state = "Rest"
    /\ buffer = <<>>

\* C20: whenever line() has returned the end-of-stream result, whatever
\* made it stop (SIGTERM, the ctrlc flag, the eof flag, a ^D byte),
\* cleanup() has run: the state is CleanedUp and the terminal attributes
\* have been restored.
C20_EndAfterCleanup ==
    /\ [](\A t \in LineCallers :
            lres[t] = ResEnd => (state = "CleanedUp" /\ restores = 1))
    /\ [][\A t \in LineCallers :
            (lpc[t] = "cleanup" /\ lpc'[t] # "cleanup") =>
               /\ lpc'[t] = "ret"
               /\ lres'[t] = ResEnd
               /\ state' = "CleanedUp"]_vars

\* ^D ended the edit: End was returned and the terminal is restored.
C20_CtrlDEnded ==
    /\ lres["editor"] = ResEnd
    /\ fed # <<>>
    /\ fed[Len(fed)] = CtrlD
    /\ ~sigterm /\ ~eof /\ raised = 0
    /\ state = "CleanedUp"
    /\ restores = 1

\* C13: terminal output is never torn. While a thread is in the middle of
\* a run of emit() calls that make up one unit (a log line and its
\* terminator, a log with the redraw after it, a prompt redraw, the
\* unknown-byte report), whatever is written to the terminal is the next
\* piece of that unit: no other thread's log line, prompt or cleanup line
\* break comes in between. At most one thread is in the middle of a unit,
\* and it holds the Inner lock.
C13_NeverTorn ==
    /\ [](\A t \in Writers : wq[t] # <<>> => ilock = t)
    /\ [][\A t \in Writers :
            (wq[t] # <<>> /\ emitted' # <<>>) =>
               /\ emitted' = <<Head(wq[t])>>
               /\ wq'[t] = Tail(wq[t])
               /\ \A u \in Writers \ {t} : wq'[u] = <<>>]_vars

\* line() is in the middle of redrawing the prompt under a rendered log
\* while the timer thread has its next line to log and the extra logger its
\* own.
C13_MidRedraw ==
    /\ lpc["editor"] = "emit"
    /\ wq["editor"] = redraw_prompt(buffer)
    /\ tpc = "stats"
    /\ lgpc = "log"
    /\ "timer" \notin waiters

\* C21: graceful shutdown is live: once SIGTERM has been delivered or the
\* input has reached its end, the session eventually reaches CleanedUp with
\* the terminal restored, whatever it was doing, with no further input.
C21_ShutdownLive ==
    (sigterm \/ eof) ~> (state = "CleanedUp" /\ restores = 1)

\* C22: an iteration of line()'s loop acts on the first of SIGTERM, ctrlc,
\* interrupted, eof, pending log, input byte that holds, and waits when
\* none does. With eof set it goes to cleanup() and end-of-stream leaving
\* the input queue as it is, even when the queue holds a complete line, and
\* once line() is on its way out no byte is popped any more.
C22_LoopPriority ==
    /\ [][\A t \in LineCallers :
            (/\ lpc[t] = "loop"
             /\ <<lpc[t], ctrlc, interrupted, log, input>>' #
                  <<lpc[t], ctrlc, interrupted, log, input>>) =>
               CASE sigterm ->
                      /\ lpc'[t] = "cleanup"
                      /\ UNCHANGED <<ctrlc, interrupted, eof, log, input>>
                 [] ~sigterm /\ ctrlc ->
                      /\ lpc'[t] = "cleanup"
                      /\ ~ctrlc'
                      /\ UNCHANGED <<interrupted, eof, log, input>>
                 [] ~sigterm /\ ~ctrlc /\ interrupted ->
                      /\ lpc'[t] = "loop"
                      /\ ~interrupted'
                      /\ UNCHANGED <<eof, log, input>>
                 [] ~sigterm /\ ~ctrlc /\ ~interrupted /\ eof ->
                      /\ lpc'[t] = "cleanup"
                      /\ UNCHANGED <<eof, log, input>>
                 [] ~sigterm /\ ~ctrlc /\ ~interrupted /\ ~eof
                       /\ log # <<>> ->
                      /\ lpc'[t] = "loop"
                      /\ log' = <<>>
                      /\ input' = input
                 [] ~sigterm /\ ~ctrlc /\ ~interrupted /\ ~eof
                       /\ log = <<>> /\ input # <<>> ->
                      /\ input' = Tail(input)
                      /\ lpc'[t] \in {"loop", "cleanup", "ret"}
                 [] OTHER ->
                      /\ lpc'[t] = "wait"
                      /\ input' = input]_vars
    /\ [][(state = "CleanedUp" \/ \E t \in LineCallers : lpc[t] = "cleanup")
            => fed' = fed]_vars

\* The end of input was seen with a complete line still in the queue:
\* line() has returned end-of-stream without taking a byte of it.
C22_EofOverLine ==
    /\ lres["editor"] = ResEnd
    /\ eof /\ ~sigterm /\ raised = 0
    /\ fed = <<>>
    /\ input # <<>>
    /\ input[Len(input)] = CR

\* C23: the reader answers byte 0x03 by emptying the input queue and
\* raising ctrlc, and appends every other byte at the tail. The queue never
\* holds 0x03 and line() is never handed one; the queue changes only by a
\* byte appended at the tail, by the flush on ^C, or by line() popping its
\* head, so line() gets the bytes in the order they were read and never
\* gets a byte that was in the queue when a ^C was read.
C23_CtrlcFlushes ==
    /\ [](/\ \A i \in 1..Len(input) : input[i] # 3
          /\ \A i \in 1..Len(fed) : fed[i] # 3)
    /\ [][/\ (pending # <<>> /\ pending' = Tail(pending)) =>
               IF Head(pending) = 3
                 THEN input' = <<>> /\ ctrlc'
                 ELSE input' = input \o <<Head(pending)>> /\ ctrlc' = ctrlc
          /\ input' # input =>
               \/ pending # <<>> /\ pending' = Tail(pending)
               \/ /\ input # <<>>
                  /\ input' = Tail(input)
                  /\ fed' = fed \o <<Head(input)>>
          /\ fed' # fed =>
               \/ fed' = <<>>
               \/ /\ input # <<>>
                  /\ fed' = fed \o <<Head(input)>>
                  /\ input' = Tail(input)]_vars

\* Two chunks were typed and read while no line() call was made, one of
\* them ^C: what the other had put into the queue is gone.
C23_QueueFlushed ==
    /\ events = 2
    /\ cpc = "idle"
    /\ lres["client"] = NoRes
    /\ pending = <<>>
    /\ raised = 1
    /\ ctrlc
    /\ input = <<>>

\* C24: on a read of zero bytes the reader sets eof and stops. Once eof is
\* set the reader thread is gone: nothing is appended to the input queue,
\* neither ctrlc nor interrupted goes from clear to set, no ^C is counted,
\* and what is typed later stays unread.
C24_ReaderStopsAtEof ==
    /\ [](eof => rpc = "done")
    /\ [][eof =>
            /\ Len(input') <= Len(input)
            /\ ctrlc' => ctrlc
            /\ interrupted' => interrupted
            /\ raised' = raised
            /\ pending # <<>> => pending' = pending]_vars

\* Keys were typed after the end of input: they wait unread.
C24_TypedAfterEof == eof /\ rpc = "done" /\ pending # <<>> /\ input = <<>>

\* C25: handling the interrupted flag is a pure retry. The flag is cleared
\* only by a line() call at the top of its loop, in state Editing, and the
\* step that clears it leaves the state, the edit buffer, the input queue
\* and the pending log as they were, writes nothing, and leaves line()
\* in its loop with no result.
C25_InterruptedRetry ==
    [][(interrupted /\ ~interrupted') =>
         /\ state = "Editing"
         /\ \E t \in LineCallers : lpc[t] = "loop" /\ ilock = t
         /\ UNCHANGED <<state, buffer, input, log, lpc, lres, ilock>>
         /\ emitted' = <<>>
         /\ retries' = retries + 1]_vars

\* An interrupted read was retried during an edit that holds the typed
\* "x", and the edit goes on.
C25_RetriedWithText ==
    /\ retries = 1
    /\ ~interrupted
    /\ state = "Editing"
    /\ lpc["editor"] \in {"loop", "wait"}
    /\ fed = <<120>>
    /\ buffer = <<120>>

\* A byte line() has no mapping for
IsUnmapped(b) == ~IsPrintable(b) /\ b \notin {3, 4, 13, 127, 21}

\* C26: ^U (0x15) popped by line() empties the buffer, whatever it held,
\* and redraws the prompt (clear-line, prompt, empty buffer); an unmapped
\* control byte leaves the buffer as it was; either way the state stays
\* Editing and line() stays in its loop with no result.
C26_KillAndUnknown ==
    [][\A t \in LineCallers :
         /\ (LineByte(t) /\ Head(input) = 21) =>
               /\ buffer' = <<>>
               /\ emitted' = <<Tok("\\r\\x1b[0K"), Tok(prompt), Fmt("", <<>>)>>
               /\ state' = "Editing"
               /\ lpc'[t] = "loop"
               /\ lres'[t] = lres[t]
         /\ (LineByte(t) /\ IsUnmapped(Head(input))) =>
               /\ buffer' = buffer
               /\ state' = "Editing"
               /\ lpc'[t] = "loop"
               /\ lres'[t] = lres[t]]_vars

\* ^U was pressed after "x": the buffer is empty under a fresh prompt.
C26_LineKilled ==
    /\ state = "Editing"
    /\ fed = <<120, 21>>
    /\ buffer = <<>>
    /\ emitted = <<ClearLine, Tok(prompt), Fmt("", <<>>)>>

\* C27: once the state is CleanedUp the session does nothing more with the
\* terminal. The state, the buffer, the log slot and the restored
\* attributes stay as they are. A line() call made then returns the
\* "cleaned up already" error, having written nothing and changed nothing.
\* A log() call made then prints the message with the plain println (the
\* message and a newline, not the raw-mode line ending), returns at once
\* without waiting, and that is the only kind of output there is.
C27_NothingAfterCleanup ==
    [][state = "CleanedUp" =>
         /\ UNCHANGED <<state, buffer, log, restores>>
         /\ \A t \in LineCallers :
              (lpc[t] = "call" /\ lpc'[t] # "call") =>
                 /\ lpc'[t] = "ret"
                 /\ lres'[t] = ResErr("cleaned up already")
                 /\ emitted' = <<>>
                 /\ UNCHANGED <<input, eof, interrupted, ctrlc, ilock>>
         /\ MainLog =>
              /\ emitted' = <<Head(mlog), Tok("\\n")>>
              /\ mlogs' = mlogs + 1
              /\ "main" \notin waiters'
         /\ TimerLog =>
              /\ emitted' = <<TimerMsg, Tok("\\n")>>
              /\ tpc' # tpc
              /\ "timer" \notin waiters'
         /\ emitted' # <<>> =>
              Len(emitted') = 2 /\ emitted'[2] = Tok("\\n")]_vars

\* After the cleanup a second caller's line() was turned away and the
\* dispatcher's farewell was printed plainly.
C27_AfterCleanup ==
    /\ state = "CleanedUp"
    /\ lres["client"] = ResErr("cleaned up already")
    /\ emitted = <<Tok(" * end!"), Tok("\\n")>>

\* C28 as stated: every flag is reset by the component that acts on it:
\* sigterm, ctrlc and eof by the line() call they send to cleanup(),
\* interrupted by the retry, ctrlc by take_ctrlc().
C28_FlagsTransient ==
    [][/\ \A t \in LineCallers :
            (lpc[t] = "loop" /\ lpc'[t] = "cleanup" /\ input' = input) =>
               /\ sigterm => ~sigterm'
               /\ (~sigterm /\ ctrlc) => ~ctrlc'
               /\ (~sigterm /\ ~ctrlc /\ eof) => ~eof'
       /\ retries' # retries => ~interrupted'
       /\ taken' # taken => ~ctrlc']_vars

\* C28, amended: ctrlc and interrupted are transient, each reset by the
\* component that acts on it (line() for both, take_ctrlc() for ctrlc), in
\* the step that acts on it; eof and the SIGTERM flag are not: once set
\* they are never reset, and line() acts on them without clearing them.
C28_CtrlcAndInterruptedTransient ==
    [][/\ \A t \in LineCallers :
            (lpc[t] = "loop" /\ lpc'[t] = "cleanup" /\ input' = input) =>
               /\ (~sigterm /\ ctrlc) => ~ctrlc'
               /\ (sigterm \/ ~ctrlc) => ctrlc' = ctrlc
       /\ retries' # retries => (interrupted /\ ~interrupted')
       /\ taken' # taken => (ctrlc /\ ~ctrlc')
       /\ eof => eof'
       /\ sigterm => sigterm']_vars

\* line() has acted on eof (it returned end-of-stream with no signal, no
\* ^C and no ^D involved) and eof is still set.
C28_EofStillSet ==
    /\ lres["editor"] = ResEnd
    /\ state = "CleanedUp"
    /\ eof
    /\ ~sigterm
    /\ raised = 0
    /\ \A i \in 1..Len(fed) : fed[i] # 4

\* C29: no log() call blocks for ever and the Term operations never
\* deadlock. The output lock is only ever held by the thread that holds
\* the Inner lock (the Inner lock is taken first, always). A log() caller
\* is parked on the condvar only while the state is Editing and the slot
\* is occupied: when the slot is drained or the state leaves Editing (a
\* line submitted, or cleanup()) every parked caller has been notified.
\* Under fair scheduling, whenever log() callers have found the slot
\* occupied a moment comes when all of them have returned, and whenever a
\* lock is held a moment comes when both locks are free (unless the
\* process ends first).
C29_LogNeverStuck ==
    /\ [](olock # "none" => ilock = olock)
    /\ [](waiters # {} => (state = "Editing" /\ log # <<>>))
    /\ (\E t \in LogCallers : blockedAt[t] > 0) ~>
         ((\A t \in LogCallers : blockedAt[t] = 0) \/ ~Alive)
    /\ (ilock # "none") ~> ((ilock = "none" /\ olock = "none") \/ ~Alive)

\* The timer thread found the slot occupied and was parked; line() has
\* drained the slot, which woke it, and holds both locks while it writes
\* the drained message.
C29_WokenByDrain ==
    /\ blockedAt["timer"] > 0
    /\ "timer" \notin waiters
    /\ state = "Editing"
    /\ log = <<>>
    /\ rendered # <<>>
    /\ ilock = "editor"
    /\ olock = "editor"

====
